---- MODULE Spec2Model ----
(***************************************************************************)
(* Request execution of the Atlassian GraphQL / Jira REST client:          *)
(* GraphQLClient.execute and JiraRestClient.get_json with the 429 retry    *)
(* loop, the Retry-After parser and the local token bucket.                *)
(*                                                                         *)
(* Units.  Every instant and duration is an integer number of              *)
(* milliseconds (the code uses float seconds).  The token bucket counts    *)
(* sixths of a token, so that its refill rate capacity / 60 per second is  *)
(* exactly one unit per millisecond.                                       *)
(***************************************************************************)
EXTENDS Integers, Sequences, FiniteSets, TLC

VARIABLES
    client,                  \* "graphql" (GraphQLClient) or "rest" (JiraRestClient)
    strict,                  \* GraphQLClient.strict
    max_retries_arg,         \* the max_retries_429 constructor argument, as passed
    max_retries_429,         \* self.max_retries_429
    max_wait_seconds,        \* self.max_wait_seconds (in ms)
    enable_local_throttling, \* self.enable_local_throttling
    tokens,                  \* TokenBucket level (sixths of a token)
    last_refill,             \* TokenBucket last-refill instant
    now,                     \* the clock behind time_provider and sleeper
    pc,                      \* position of the one call: idle, throttle, send, handle, done
    retries,                 \* the loop's local `retries`
    cost_value,              \* the loop's local `cost_value`
    response,                \* the response being handled (None when there is none)
    respOpen,                \* whether that response is still open
    exchanges,               \* HTTP exchanges issued by the call
    attemptLog,              \* one entry per HTTP exchange, in order
    sleeps,                  \* the sleeper's calls, in order: <<origin, duration>>
    outcome,                 \* what the call returned or raised
    lock,                    \* TokenBucket lock: the thread holding it, 0 when free
    tpc,                     \* per thread: idle, waiting, locked, checked
    tloc,                    \* per thread: the locals of its consume call
    consumeLog,              \* the finished consume calls, in order
    PAGEINFO_HAS_END_CURSOR,  \* api: the schema's PageInfo has endCursor
    PROJECTS_EDGE_HAS_CURSOR, \* api: the schema's project edge has cursor
    OPSGENIE_EDGE_HAS_CURSOR, \* api: the schema's opsgenie team edge has cursor
    wpc,                     \* position of the iterator: idle, outer, edges, nested, done
    after,                   \* outer walk: the cursor of the next request
    seen_after,              \* outer walk: the cursors already requested
    conn,                    \* outer walk: the page being handled
    page_no,                 \* outer pages received
    edge_idx,                \* index of the edge being handled in conn
    teams,                   \* nodes of the embedded first page of the current parent
    out,                     \* _paginate_opsgenie_teams: nodes of the fetched pages
    n_after,                 \* _paginate_opsgenie_teams: after
    n_seen_after,            \* _paginate_opsgenie_teams: seen_after
    n_conn,                  \* the last teams page of the current parent, if any
    events,                  \* the requests and yields of the call, in order
    records,                 \* the projects of the records yielded, in order
    last_record,             \* the record handed over at the current yield
    served,                  \* the team ids the server sent for it, in fetch order
    walk_outcome,            \* how the iterator ended
    iterator,                \* the offset iterator: projects, issues or worklogs
    page_size,               \* its page_size argument
    opc,                     \* its position: idle, request, done
    start_at,                \* its local start_at
    seen_start_at,           \* its local seen_start_at
    offsets,                 \* the startAt values it has requested, in order
    page,                    \* the page it received last
    delivered,               \* the number of values each page brought
    yielded,                 \* the number of records it has passed to its caller
    offset_outcome,          \* how it ended
    auth_lock,               \* OAuthRefreshTokenAuth._lock: the holder, 0 when free
    access_token,            \* OAuthRefreshTokenAuth._access_token
    expires_at,              \* OAuthRefreshTokenAuth._expires_at
    refresh_token,           \* OAuthRefreshTokenAuth._refresh_token
    refresh_margin,          \* OAuthRefreshTokenAuth._refresh_margin (in ms)
    apc,                     \* per thread: idle, waiting, locked, refreshing, storing
    aloc,                    \* per thread: the locals of its _get_access_token call
    applyLog,                \* the finished apply calls, in order
    tokenRequests,           \* the requests sent to the token endpoint
    charges                  \* the costs the bucket admitted for execute, in order

configVars == <<client, strict, max_retries_arg, max_retries_429, max_wait_seconds,
                enable_local_throttling>>
bucketVars == <<tokens, last_refill, charges>>
callVars == <<pc, retries, cost_value, response, respOpen, exchanges, attemptLog,
              sleeps, outcome>>
threadVars == <<lock, tpc, tloc, consumeLog>>
schemaVars == <<PAGEINFO_HAS_END_CURSOR, PROJECTS_EDGE_HAS_CURSOR, OPSGENIE_EDGE_HAS_CURSOR>>
walkVars == <<schemaVars, wpc, after, seen_after, conn, page_no, edge_idx, teams, out,
              n_after, n_seen_after, n_conn, events, records, last_record, served,
              walk_outcome>>
offsetVars == <<iterator, page_size, opc, start_at, seen_start_at, offsets, page,
                delivered, yielded, offset_outcome>>
oauthVars == <<auth_lock, access_token, expires_at, refresh_token, refresh_margin, apc,
               aloc, applyLog, tokenRequests>>
otherVars == <<threadVars, walkVars, offsetVars, oauthVars>>
vars == <<configVars, bucketVars, now, callVars, otherVars>>

----------------------------------------------------------------------------
(* Optional values: Python's None and a present value. *)
None == <<>>
Some(v) == <<v>>
IsSome(o) == Len(o) = 1
Get(o) == o[1]

Max(a, b) == IF a >= b THEN a ELSE b
Min(a, b) == IF a <= b THEN a ELSE b
Seconds(n) == n * 1000

----------------------------------------------------------------------------
(* Bounds of the model. *)
MaxRetriesArg == 2

(* Program constants. *)
BucketCapacityTokens == 10000
BucketWindowSeconds == 60

----------------------------------------------------------------------------
(* Retry-After header values.  A raw header is a sequence of tokens: a     *)
(* blank, a decimal digit, a text that is one ISO-8601 timestamp (carrying *)
(* the instant it denotes), or some other character.                       *)
SP == <<"sp", 0>>
D(n) == <<"d", n>>
Iso(t) == <<"iso", t>>
X == <<"x", 0>>

RECURSIVE LStrip(_)
LStrip(s) == IF s # <<>> /\ Head(s) = SP THEN LStrip(Tail(s)) ELSE s

RECURSIVE RStrip(_)
RStrip(s) ==
    IF s # <<>> /\ s[Len(s)] = SP THEN RStrip(SubSeq(s, 1, Len(s) - 1)) ELSE s

(* str.strip() *)
Strip(s) == RStrip(LStrip(s))

(* str.isdigit(): non-empty and every character a digit *)
IsDigit(s) == s # <<>> /\ \A i \in 1..Len(s) : s[i][1] = "d"

(* int(candidate) of a digit string *)
RECURSIVE IntOf(_)
IntOf(s) ==
    IF s = <<>> THEN 0
    ELSE 10 * IntOf(SubSeq(s, 1, Len(s) - 1)) + s[Len(s)][2]

ParseFailure == [ok |-> FALSE, at |-> 0, parser |-> "none"]
Parsed(at, parser) == [ok |-> TRUE, at |-> at, parser |-> parser]

(* retry.parse_retry_after: delta-seconds, then ISO-8601, else failure. *)
(* `header` is None or Some(raw); `clock` is the instant "now".         *)
parse_retry_after(header, clock) ==
    IF ~IsSome(header) THEN ParseFailure
    ELSE LET candidate == Strip(Get(header)) IN
         IF candidate = <<>> THEN ParseFailure
         ELSE IF IsDigit(candidate)
              THEN Parsed(clock + Seconds(IntOf(candidate)), "delta-seconds")
         ELSE IF Len(candidate) = 1 /\ candidate[1][1] = "iso"
              THEN Parsed(candidate[1][2], "iso8601")
         ELSE ParseFailure

(* Mutant: the digits are taken for milliseconds. *)
_parse_retry_after_Milliseconds(header_value, clock) ==
    IF ~IsSome(header_value) THEN ParseFailure
    ELSE LET candidate == Strip(Get(header_value)) IN
         IF candidate = <<>> THEN ParseFailure
         ELSE IF IsDigit(candidate)
              THEN Parsed(clock + IntOf(candidate), "delta-seconds")
         ELSE parse_retry_after(Some(candidate), clock)

(* JiraRestClient._parse_retry_after *)
_parse_retry_after(header_value, clock) ==
    IF ~IsSome(header_value) THEN ParseFailure
    ELSE LET candidate == Strip(Get(header_value)) IN
         IF candidate = <<>> THEN ParseFailure
         ELSE IF IsDigit(candidate)
              THEN Parsed(clock + Seconds(IntOf(candidate)), "delta-seconds")
         ELSE parse_retry_after(Some(candidate), clock)

(* Mutant: execute's parser takes timestamps only. *)
ParseHeader_TimestampsOnly(c, header, clock) ==
    IF c = "rest" THEN _parse_retry_after(header, clock)
    ELSE IF IsSome(header) /\ IsDigit(Strip(Get(header))) THEN ParseFailure
    ELSE parse_retry_after(header, clock)

(* The parser each client calls on a 429. *)
ParseHeader(c, header, clock) ==
    IF c = "rest" THEN _parse_retry_after(header, clock)
    ELSE parse_retry_after(header, clock)

----------------------------------------------------------------------------
(* TokenBucket.  One unit is a sixth of a token; the refill rate           *)
(* capacity / 60 tokens per second is one unit per millisecond.            *)
BucketCapacity == 6 * BucketCapacityTokens
RefillPerMs == BucketCapacity \div Seconds(BucketWindowSeconds)
TokenUnits(cost) == 6 * cost

(* The level after refilling at instant `clock`. *)
Refilled(level, last, clock) ==
    Min(BucketCapacity, level + (clock - last) * RefillPerMs)

(* TokenBucket.consume(cost, max_wait): admitted at once; admitted after   *)
(* a sleep of `wait`, the refill of the slept time being credited before   *)
(* the full cost is deducted; or rejected without a deduction.  A rejected *)
(* caller has waited locally before giving up (`slept`), as                *)
(* test_local_throttling_fails_when_wait_exceeds_max observes.             *)
Consume(level, last, clock, cost, max_wait) ==
    LET available == Refilled(level, last, clock)
        deficit == TokenUnits(cost) - available
        wait == deficit \div RefillPerMs
    IN  IF available >= TokenUnits(cost)
        THEN [admitted |-> TRUE, wait |-> 0, slept |-> 0,
              level |-> available - TokenUnits(cost), last |-> clock]
        ELSE IF wait > max_wait
        THEN [admitted |-> FALSE, wait |-> wait, slept |-> max_wait,
              level |-> available, last |-> clock]
        ELSE [admitted |-> TRUE, wait |-> wait, slept |-> wait,
              level |-> Refilled(available, clock, clock + wait) - TokenUnits(cost),
              last |-> clock + wait]

----------------------------------------------------------------------------
(* Inputs of the model. *)
Clients == {"graphql", "rest"}
MaxRetriesArgs == -1 .. MaxRetriesArg
MaxWaitArgs == {-1, 2, 60}
Costs == {1, BucketCapacityTokens, 2 * BucketCapacityTokens}
T0 == Seconds(100)
Drifts == {0, 1}

Headers ==
    { None,                                  \* no Retry-After header
      Some(<<>>),                            \* ""
      Some(<<SP>>),                          \* " "
      Some(<<SP, X, SP>>),                   \* " invalid "
      Some(<<D(2), X>>),                     \* "2x"
      Some(<<D(2)>>),                        \* "2"
      Some(<<SP, D(6), D(1), SP>>),          \* " 61 "
      Some(<<Iso(T0 - Seconds(1))>>),        \* a timestamp before the call
      Some(<<Iso(T0 + Seconds(2))>>),        \* two seconds after the call starts
      Some(<<SP, Iso(T0 + Seconds(200))>>) } \* " <timestamp far ahead>"

Statuses == {100, 200, 301, 404, 429, 500, 503}
Bodies == {"object", "object_errors", "array", "notjson"}

(* The responses the transport can deliver. *)
Responses ==
    [status : {429}, header : Headers, body : {"object"}]
    \cup [status : {st \in Statuses : st < 400}, header : {None}, body : Bodies]
    \cup [status : {st \in Statuses : st >= 400 /\ st # 429}, header : {None},
          body : {"notjson"}]

----------------------------------------------------------------------------
(* What a call returns or raises.  An absent field is None. *)
NoOutcome ==
    [kind |-> "none", status_code |-> None, retry_after |-> None, attempts |-> None,
     header_value |-> None, wait_seconds |-> None, max_wait_seconds |-> None,
     data |-> None, errors |-> None, estimated_cost |-> None]

Raised(kind) == [NoOutcome EXCEPT !.kind = kind]

(* errors.TransportError(status_code, body_snippet) *)
TransportError(status_code) ==
    [NoOutcome EXCEPT !.kind = "TransportError", !.status_code = Some(status_code)]

(* errors.RateLimitError(retry_after, attempts, header_value, wait_seconds,  *)
(* max_wait_seconds): the last two default to None.                          *)
RateLimitError(retry_after, attempts, header_value, wait, max_wait) ==
    [NoOutcome EXCEPT !.kind = "RateLimitError", !.retry_after = retry_after,
                      !.attempts = Some(attempts), !.header_value = header_value,
                      !.wait_seconds = wait, !.max_wait_seconds = max_wait]

(* Mutant: the error carries the stripped header instead of the raw one. *)
ParseFailureError_Stripped(attempt_number, retry_header) ==
    RateLimitError(None, attempt_number,
                   IF IsSome(retry_header) THEN Some(Strip(Get(retry_header))) ELSE None,
                   None, None)

(* Mutant: the parser's ValueError is not caught and leaves the call. *)
ParseFailureError_Uncaught(attempt_number, retry_header) == Raised("ValueError")

(* The error raised when Retry-After does not parse. *)
ParseFailureError(attempt_number, retry_header) ==
    RateLimitError(None, attempt_number, retry_header, None, None)

(* The error raised when the computed wait is over max_wait_seconds. *)
OverCapError(retry_at, attempt_number, retry_header, computed_wait, max_wait) ==
    RateLimitError(Some(retry_at), attempt_number, retry_header,
                   Some(computed_wait), Some(max_wait))

(* The error raised when no retry is left. *)
RetriesExhaustedError(retry_at, attempt_number, retry_header, computed_wait) ==
    RateLimitError(Some(retry_at), attempt_number, retry_header,
                   Some(computed_wait), None)

(* wait_seconds: the computed wait clamped at zero, used for sleeping. *)
WaitSeconds(computed_wait) == IF computed_wait <= 0 THEN 0 ELSE computed_wait

(* Mutant: one retry too many. *)
RetryAllowed_OffByOne(retries_so_far, max_retries) == retries_so_far <= max_retries

RetryAllowed(retries_so_far, max_retries) == retries_so_far < max_retries

(* Mutant: the attempt number counts the retries only. *)
AttemptNumber_Retries(retries_so_far) == retries_so_far

(* attempt_number, set at the top of the loop *)
AttemptNumber(retries_so_far) == retries_so_far + 1

OverCap(computed_wait, max_wait) == computed_wait > max_wait

(* Mutant: only a 5xx status raises TransportError. *)
IsErrorStatus_Only5xx(status_code) == status_code >= 500

(* Whether a non-429 status raises TransportError. *)
IsErrorStatus(status_code) == status_code >= 500 \/ status_code >= 400

(* What the rest of the loop body does with a response below 400:          *)
(* GraphQLClient.execute parses the payload into GraphQLResult.            *)
(* models.parse_error_items on the payload's "errors": a non-empty error   *)
(* list stays one, no list gives None.                                     *)
parse_error_items(body) == IF body = "object_errors" THEN Some("errors") ELSE None

(* Mutant: strict mode raises without the partial data. *)
GraphQLBodyOutcome_DataDropped(body, strict_mode) ==
    CASE body = "notjson" -> Raised("SerializationError")
      [] body = "array" -> [NoOutcome EXCEPT !.kind = "result"]
      [] OTHER ->
            IF strict_mode /\ IsSome(parse_error_items(body))
            THEN [NoOutcome EXCEPT !.kind = "GraphQLOperationError",
                                   !.errors = parse_error_items(body)]
            ELSE [NoOutcome EXCEPT !.kind = "result",
                                   !.data = Some("data"), !.errors = parse_error_items(body)]

GraphQLBodyOutcome(body, strict_mode) ==
    CASE body = "notjson" -> Raised("SerializationError")
      [] body = "array" -> [NoOutcome EXCEPT !.kind = "result"]
      [] OTHER ->
            IF strict_mode /\ IsSome(parse_error_items(body))
            THEN [NoOutcome EXCEPT !.kind = "GraphQLOperationError",
                                   !.data = Some("data"), !.errors = parse_error_items(body)]
            ELSE [NoOutcome EXCEPT !.kind = "result",
                                   !.data = Some("data"), !.errors = parse_error_items(body)]

(* JiraRestClient.get_json returns the payload when it is a JSON object. *)
RestBodyOutcome(body) ==
    CASE body = "notjson" -> Raised("SerializationError")
      [] body = "array" -> Raised("SerializationError")
      [] OTHER -> [NoOutcome EXCEPT !.kind = "result", !.data = Some(body)]

BodyOutcome(c, body, strict_mode) ==
    IF c = "rest" THEN RestBodyOutcome(body) ELSE GraphQLBodyOutcome(body, strict_mode)

(* Mutant: the attempt goes straight to the exchange. *)
LoopTop_NoThrottle(c) == "send"

(* Where the retry loop starts an attempt: only GraphQLClient has the      *)
(* local budget step.                                                      *)
LoopTop(c) == IF c = "graphql" THEN "throttle" ELSE "send"

(* The entry of attemptLog for one HTTP exchange. *)
LogEntry(status, header, body) ==
    [status |-> status, header |-> header, body |-> body, parsed |-> FALSE,
     computed_wait |-> None, slept |-> None, result |-> "pending"]

----------------------------------------------------------------------------
(* The threads that share one client, hence one TokenBucket. *)
Threads == {1, 2}

(* The locals of a thread that is not inside consume. *)
NoCall == [cost |-> 0, seen_level |-> 0, seen_last |-> 0, available |-> 0,
           r |-> [admitted |-> FALSE, wait |-> 0, slept |-> 0, level |-> 0, last |-> 0]]

(* No thread is inside TokenBucket.consume. *)
ThreadsIdle ==
    /\ lock = 0
    /\ tpc = [t \in Threads |-> "idle"]
    /\ tloc = [t \in Threads |-> NoCall]
    /\ consumeLog = <<>>

(* A connection as parsed: PageInfo, the edges' cursors, the edges' nodes. *)
NoConn == [has_next_page |-> FALSE, end_cursor |-> None, cursors |-> <<>>, nodes |-> <<>>]

(* Before the first yield. *)
NoRecord == [project |-> <<>>, opsgenie_teams |-> <<>>]

(* How an iterator ends: exhausted, or the error that leaves it. *)
WalkOutcome(kind, why) == [kind |-> kind, why |-> why]

(* No call of iter_projects_with_opsgenie_linkable_teams is under way. *)
WalkStart ==
    /\ wpc = "idle"
    /\ after = None
    /\ seen_after = {}
    /\ conn = NoConn
    /\ page_no = 0
    /\ edge_idx = 0
    /\ teams = <<>>
    /\ out = <<>>
    /\ n_after = None
    /\ n_seen_after = {}
    /\ n_conn = None
    /\ events = <<>>
    /\ records = <<>>
    /\ last_record = NoRecord
    /\ served = <<>>
    /\ walk_outcome = WalkOutcome("none", "none")

(* The same, under a schema that exposes every cursor. *)
(* A page of an offset-paginated resource as the iterator reads it. *)
OffsetPage(count, total, is_last) == [count |-> count, total |-> total, is_last |-> is_last]
NoPage == OffsetPage(0, None, None)

(* No offset iterator is running. *)
OffsetIdle ==
    /\ iterator = "projects"
    /\ page_size = 1
    /\ opc = "idle"
    /\ start_at = 0
    /\ seen_start_at = {}
    /\ offsets = <<>>
    /\ page = NoPage
    /\ delivered = <<>>
    /\ yielded = 0
    /\ offset_outcome = [kind |-> "none", why |-> "none"]

(* The locals of a _get_access_token call that has not got anywhere yet. *)
NoApply == [overlap |-> FALSE, now |-> 0, expires_in |-> 0, rotated |-> FALSE]

(* The cache of a fresh OAuthRefreshTokenAuth, nobody calling it. *)
OAuthStart ==
    /\ auth_lock = 0
    /\ access_token = None
    /\ expires_at = None
    /\ refresh_token = 0
    /\ apc = [t \in Threads |-> "idle"]
    /\ aloc = [t \in Threads |-> NoApply]
    /\ applyLog = <<>>
    /\ tokenRequests = 0

OAuthIdle == refresh_margin = Seconds(60) /\ OAuthStart

WalkIdle ==
    /\ PAGEINFO_HAS_END_CURSOR = TRUE
    /\ PROJECTS_EDGE_HAS_CURSOR = TRUE
    /\ OPSGENIE_EDGE_HAS_CURSOR = TRUE
    /\ WalkStart

----------------------------------------------------------------------------
Init ==
    /\ client \in Clients
    /\ strict \in (IF client = "graphql" THEN BOOLEAN ELSE {FALSE})
    /\ max_retries_arg \in MaxRetriesArgs
    /\ max_retries_429 = Max(0, max_retries_arg)
    /\ max_wait_seconds \in {Seconds(Max(0, a)) : a \in MaxWaitArgs}
    /\ enable_local_throttling \in (IF client = "graphql" THEN BOOLEAN ELSE {FALSE})
    /\ tokens = BucketCapacity
    /\ last_refill = T0
    /\ charges = <<>>
    /\ now = T0
    /\ pc = "idle"
    /\ retries = 0
    /\ cost_value = 1
    /\ response = None
    /\ respOpen = FALSE
    /\ exchanges = 0
    /\ attemptLog = <<>>
    /\ sleeps = <<>>
    /\ outcome = NoOutcome
    /\ ThreadsIdle
    /\ WalkIdle
    /\ OffsetIdle
    /\ OAuthIdle

(* Entry of execute / get_json: argument validation, then the loop. *)
StartCall(valid, estimated_cost) ==
    /\ pc = "idle"
    /\ IF ~valid
       THEN /\ outcome' = Raised("ValueError")
            /\ pc' = "done"
            /\ UNCHANGED cost_value
       ELSE /\ cost_value' = Max(0, estimated_cost)
            /\ pc' = LoopTop(client)
            /\ UNCHANGED outcome
    /\ retries' = 0
    /\ UNCHANGED <<otherVars, configVars, bucketVars, now, response, respOpen, exchanges,
                   attemptLog, sleeps>>

(* errors.LocalRateLimitError(estimated_cost, wait_seconds, max_wait_seconds) *)
LocalRateLimitError(estimated_cost, wait, max_wait) ==
    [NoOutcome EXCEPT !.kind = "LocalRateLimitError",
                      !.estimated_cost = Some(estimated_cost),
                      !.wait_seconds = Some(wait), !.max_wait_seconds = Some(max_wait)]

(* Mutant: a rejection by the bucket is swallowed and the request is sent. *)
AfterConsume_Swallowed(admitted) == "send"

(* Where execute goes after _consume_local_budget: on to the exchange, or  *)
(* out of the call with the bucket's error, which nothing catches.         *)
AfterConsume(admitted) == IF admitted THEN "send" ELSE "done"

(* The consume calls of execute that returned: TokenBucket.consume raises  *)
(* when it rejects, and returns after taking the cost when it admits.      *)
Charged(log, admitted, cost) == IF admitted THEN Append(log, cost) ELSE log

(* GraphQLClient._consume_local_budget *)
ConsumeLocalBudget ==
    /\ pc = "throttle"
    /\ IF ~enable_local_throttling
       THEN /\ pc' = "send"
            /\ UNCHANGED <<bucketVars, now, sleeps, outcome>>
       ELSE LET r == Consume(tokens, last_refill, now, cost_value, max_wait_seconds) IN
            /\ tokens' = r.level
            /\ last_refill' = r.last
            /\ charges' = Charged(charges, r.admitted, cost_value)
            /\ sleeps' = IF r.slept > 0
                         THEN Append(sleeps, <<"bucket", r.slept>>)
                         ELSE sleeps
            /\ now' = now + r.slept
            /\ pc' = AfterConsume(r.admitted)
            /\ outcome' = IF r.admitted
                          THEN outcome
                          ELSE LocalRateLimitError(cost_value, r.wait, max_wait_seconds)
    /\ UNCHANGED <<otherVars, configVars, retries, cost_value, response, respOpen, exchanges,
                   attemptLog>>

(* The auth capability refuses to build the headers: no exchange. *)
AuthFails ==
    /\ pc = "send"
    /\ pc' = "done"
    /\ outcome' = Raised("AuthError")
    /\ UNCHANGED <<otherVars, configVars, bucketVars, now, retries, cost_value, response,
                   respOpen, exchanges, attemptLog, sleeps>>

(* The HTTP exchange fails in the transport (httpx.RequestError). *)
SendFails ==
    /\ pc = "send"
    /\ exchanges' = exchanges + 1
    /\ attemptLog' = Append(attemptLog,
                            [LogEntry(0, None, "notjson") EXCEPT !.result = "TransportError"])
    /\ outcome' = TransportError(0)
    /\ pc' = "done"
    /\ UNCHANGED <<otherVars, configVars, bucketVars, now, retries, cost_value, response,
                   respOpen, sleeps>>

(* The HTTP exchange delivers a response. *)
Send(resp) ==
    /\ pc = "send"
    /\ exchanges' = exchanges + 1
    /\ attemptLog' = Append(attemptLog, LogEntry(resp.status, resp.header, resp.body))
    /\ response' = Some(resp)
    /\ respOpen' = TRUE
    /\ pc' = "handle"
    /\ UNCHANGED <<otherVars, configVars, bucketVars, now, retries, cost_value, sleeps, outcome>>

(* Mutant: the sleeper is called for a zero wait too. *)
ShouldSleep_ZeroToo(wait_seconds) == wait_seconds >= 0

(* Whether the 429 path calls the sleeper. *)
ShouldSleep(wait_seconds) == wait_seconds > 0

(* Mutant: an unparseable Retry-After is retried while retries remain. *)
RateLimitDecision_RetryUnparsed(parse_ok, computed_wait, retries_so_far, max_retries, max_wait) ==
    IF ~parse_ok
    THEN (IF retries_so_far < max_retries THEN "retry" ELSE "parse_failure")
    ELSE IF OverCap(computed_wait, max_wait) THEN "over_cap"
    ELSE IF ~RetryAllowed(retries_so_far, max_retries) THEN "exhausted"
    ELSE "retry"

(* Mutant: the wait cap only counts once no retry is left. *)
RateLimitDecision_CapAfterRetries(parse_ok, computed_wait, retries_so_far, max_retries, max_wait) ==
    IF ~parse_ok THEN "parse_failure"
    ELSE IF RetryAllowed(retries_so_far, max_retries) THEN "retry"
    ELSE IF OverCap(computed_wait, max_wait) THEN "over_cap"
    ELSE "exhausted"

(* Mutant: the retry budget is checked before the wait cap. *)
RateLimitDecision_BudgetFirst(parse_ok, computed_wait, retries_so_far, max_retries, max_wait) ==
    IF ~parse_ok THEN "parse_failure"
    ELSE IF ~RetryAllowed(retries_so_far, max_retries) THEN "exhausted"
    ELSE IF OverCap(computed_wait, max_wait) THEN "over_cap"
    ELSE "retry"

(* The order of the decisions on a 429: an unparseable Retry-After, then *)
(* the wait cap, then the retry budget.                                  *)
RateLimitDecision(parse_ok, computed_wait, retries_so_far, max_retries, max_wait) ==
    IF ~parse_ok THEN "parse_failure"
    ELSE IF OverCap(computed_wait, max_wait) THEN "over_cap"
    ELSE IF ~RetryAllowed(retries_so_far, max_retries) THEN "exhausted"
    ELSE "retry"

(* finally: response.close() *)
Closed_LeftOpen(open) == open

Closed(open) == FALSE

(* Replace the last entry of the log. *)
SetLast(log, entry) == [log EXCEPT ![Len(log)] = entry]

(* The loop body on a 429 response.  `drift` is the time that passes       *)
(* between the clock read of the parser and the one of the wait.           *)
Handle429(drift) ==
    /\ pc = "handle"
    /\ Get(response).status = 429
    /\ LET retry_header == Get(response).header
           attempt_number == AttemptNumber(retries)
           pr == ParseHeader(client, retry_header, now)
           computed_wait == pr.at - (now + drift)
           wait_seconds == WaitSeconds(computed_wait)
           decision == RateLimitDecision(pr.ok, computed_wait, retries,
                                         max_retries_429, max_wait_seconds)
           entry == attemptLog[Len(attemptLog)]
       IN  CASE decision = "parse_failure" ->
                     /\ outcome' = ParseFailureError(attempt_number, retry_header)
                     /\ attemptLog' = SetLast(attemptLog,
                                              [entry EXCEPT !.result = "RateLimitError"])
                     /\ pc' = "done"
                     /\ UNCHANGED <<now, retries, sleeps>>
                  [] decision = "over_cap" ->
                     /\ outcome' = OverCapError(pr.at, attempt_number, retry_header,
                                                computed_wait, max_wait_seconds)
                     /\ attemptLog' = SetLast(attemptLog,
                                        [entry EXCEPT !.parsed = pr.ok,
                                                      !.computed_wait = Some(computed_wait),
                                                      !.result = "RateLimitError"])
                     /\ pc' = "done"
                     /\ now' = now + drift
                     /\ UNCHANGED <<retries, sleeps>>
                  [] decision = "exhausted" ->
                     /\ outcome' = RetriesExhaustedError(pr.at, attempt_number,
                                                         retry_header, computed_wait)
                     /\ attemptLog' = SetLast(attemptLog,
                                        [entry EXCEPT !.parsed = pr.ok,
                                                      !.computed_wait = Some(computed_wait),
                                                      !.result = "RateLimitError"])
                     /\ pc' = "done"
                     /\ now' = now + drift
                     /\ UNCHANGED <<retries, sleeps>>
                  [] OTHER ->
                     /\ sleeps' = IF ShouldSleep(wait_seconds)
                                  THEN Append(sleeps, <<"429", wait_seconds>>)
                                  ELSE sleeps
                     /\ attemptLog' = SetLast(attemptLog,
                                        [entry EXCEPT !.parsed = pr.ok,
                                                      !.computed_wait = Some(computed_wait),
                                                      !.slept = IF ShouldSleep(wait_seconds)
                                                                THEN Some(wait_seconds)
                                                                ELSE None,
                                                      !.result = "retry"])
                     /\ now' = now + drift
                               + (IF ShouldSleep(wait_seconds) THEN wait_seconds ELSE 0)
                     /\ retries' = retries + 1
                     /\ pc' = LoopTop(client)
                     /\ UNCHANGED outcome
    /\ response' = None
    /\ respOpen' = Closed(respOpen)
    /\ UNCHANGED <<otherVars, configVars, bucketVars, cost_value, exchanges>>

(* The loop body on any other response. *)
HandleOther ==
    /\ pc = "handle"
    /\ Get(response).status # 429
    /\ LET resp == Get(response)
           result == IF IsErrorStatus(resp.status)
                     THEN TransportError(resp.status)
                     ELSE BodyOutcome(client, resp.body, strict)
       IN  /\ outcome' = result
           /\ attemptLog' = SetLast(attemptLog,
                                    [attemptLog[Len(attemptLog)] EXCEPT
                                        !.result = result.kind])
    /\ pc' = "done"
    /\ response' = None
    /\ respOpen' = Closed(respOpen)
    /\ UNCHANGED <<otherVars, configVars, bucketVars, now, retries, cost_value, exchanges, sleeps>>

Next ==
    \/ \E valid \in BOOLEAN :
         \E c \in (IF enable_local_throttling THEN Costs ELSE {1}) :
           StartCall(valid, c)
    \/ ConsumeLocalBudget
    \/ AuthFails
    \/ SendFails
    \/ \E resp \in Responses : Send(resp)
    \/ \E drift \in Drifts : Handle429(drift)
    \/ HandleOther

Spec == Init /\ [][Next]_vars

(* The steps of a started call: the code runs them without waiting for     *)
(* anything but the transport and the sleeper, which both return.          *)
CallStep ==
    \/ ConsumeLocalBudget
    \/ AuthFails
    \/ SendFails
    \/ \E resp \in Responses : Send(resp)
    \/ \E drift \in Drifts : Handle429(drift)
    \/ HandleOther

FairSpec == Spec /\ WF_vars(CallStep)

----------------------------------------------------------------------------
(* One TokenBucket shared by the threads that call execute on one client:  *)
(* each call of consume takes the bucket's lock, refills and checks,       *)
(* sleeps and deducts, and releases the lock.                              *)

(* Most consume calls of one behaviour. *)
MaxConsumeCalls == 3

(* The clock moves between the calls in steps of this length. *)
ClockStep == Seconds(30)

(* The consume calls started so far. *)
ConsumeCalls == Len(consumeLog) + Cardinality({t \in Threads : tpc[t] # "idle"})

(* The calling thread's variables, all idle, and the client's bucket. *)
InitBucket ==
    /\ client = "graphql"
    /\ strict = FALSE
    /\ max_retries_arg = 0
    /\ max_retries_429 = 0
    /\ max_wait_seconds \in {Seconds(Max(0, a)) : a \in MaxWaitArgs}
    /\ enable_local_throttling = TRUE
    /\ tokens = BucketCapacity
    /\ last_refill = T0
    /\ charges = <<>>
    /\ now = T0
    /\ pc = "idle"
    /\ retries = 0
    /\ cost_value = 1
    /\ response = None
    /\ respOpen = FALSE
    /\ exchanges = 0
    /\ attemptLog = <<>>
    /\ sleeps = <<>>
    /\ outcome = NoOutcome
    /\ ThreadsIdle
    /\ WalkIdle
    /\ OffsetIdle
    /\ OAuthIdle

(* What the bucket's steps leave alone. *)
bucketFrame == <<configVars, pc, retries, cost_value, response, respOpen, exchanges,
                 attemptLog, outcome, walkVars, offsetVars, oauthVars>>

(* A thread calls consume(cost, max_wait_seconds) and waits for the lock. *)
BucketCall(t, cost) ==
    /\ tpc[t] = "idle"
    /\ ConsumeCalls < MaxConsumeCalls
    /\ tpc' = [tpc EXCEPT ![t] = "waiting"]
    /\ tloc' = [tloc EXCEPT ![t] = [NoCall EXCEPT !.cost = cost]]
    /\ UNCHANGED <<bucketFrame, bucketVars, now, sleeps, lock, consumeLog>>

(* Whether the bucket's lock can be taken. *)
LockFree(holder) == holder = 0

(* The thread takes the lock. *)
BucketAcquire(t) ==
    /\ tpc[t] = "waiting"
    /\ LockFree(lock)
    /\ lock' = t
    /\ tpc' = [tpc EXCEPT ![t] = "locked"]
    /\ UNCHANGED <<bucketFrame, bucketVars, now, sleeps, tloc, consumeLog>>

(* Under the lock: refill to the current instant and decide. *)
BucketRefillCheck(t) ==
    /\ tpc[t] = "locked"
    /\ tloc' = [tloc EXCEPT ![t] =
                  [cost |-> tloc[t].cost, seen_level |-> tokens, seen_last |-> last_refill,
                   available |-> Refilled(tokens, last_refill, now),
                   r |-> Consume(tokens, last_refill, now, tloc[t].cost,
                                 max_wait_seconds)]]
    /\ tpc' = [tpc EXCEPT ![t] = "checked"]
    /\ UNCHANGED <<bucketFrame, bucketVars, now, sleeps, lock, consumeLog>>

(* Under the lock: sleep, write the level and the refill instant back,     *)
(* release the lock and return or raise.                                   *)
BucketSettle(t) ==
    /\ tpc[t] = "checked"
    /\ LET r == tloc[t].r IN
       /\ tokens' = r.level
       /\ last_refill' = r.last
       /\ UNCHANGED charges
       /\ sleeps' = IF r.slept > 0 THEN Append(sleeps, <<"bucket", r.slept>>) ELSE sleeps
       /\ now' = now + r.slept
       /\ consumeLog' = Append(consumeLog,
                               [thread |-> t, cost |-> tloc[t].cost,
                                available |-> tloc[t].available,
                                admitted |-> r.admitted, wait |-> r.wait,
                                slept |-> r.slept, level |-> r.level])
    /\ lock' = IF lock = t THEN 0 ELSE lock
    /\ tpc' = [tpc EXCEPT ![t] = "idle"]
    /\ tloc' = [tloc EXCEPT ![t] = NoCall]
    /\ UNCHANGED bucketFrame

(* Time passes. *)
Tick ==
    /\ now < T0 + MaxConsumeCalls * ClockStep
    /\ now' = now + ClockStep
    /\ UNCHANGED <<bucketFrame, bucketVars, sleeps, threadVars>>

NextBucket ==
    \/ \E t \in Threads : \E cost \in Costs : BucketCall(t, cost)
    \/ \E t \in Threads : BucketAcquire(t)
    \/ \E t \in Threads : BucketRefillCheck(t)
    \/ \E t \in Threads : BucketSettle(t)
    \/ Tick

SpecBucket == InitBucket /\ [][NextBucket]_vars

----------------------------------------------------------------------------
(* Two-level cursor pagination: iter_projects_with_opsgenie_linkable_teams *)
(* walks the projects connection and, for every project whose embedded     *)
(* opsgenie-teams connection has more pages, _paginate_opsgenie_teams.     *)

(* Most requests (calls of client.execute) of one iteration. *)
MaxRequests == 4

(* Python truthiness of an optional string: neither None nor "". *)
Truthy(cursor) == IsSome(cursor) /\ Get(cursor) # ""

(* A response of client.execute as the iterator sees it: a page, or one of *)
(* the failures (execute raising, data missing, data malformed).           *)
ExecuteErrors == {"RateLimitError", "TransportError", "LocalRateLimitError"}
DataFaults == {"data_none", "data_none_with_errors", "malformed", "malformed_with_errors"}
Failures == ExecuteErrors \cup DataFaults
PageOf(fail, has_next_page, end_cursor, edges) ==
    [fail |-> fail, has_next_page |-> has_next_page, end_cursor |-> end_cursor,
     edges |-> edges]
FailedPages == {PageOf(f, FALSE, None, <<>>) : f \in Failures}

(* The projects pages the server can send; an edge is its cursor. *)
ProjectsConnections ==
    { PageOf("none", FALSE, None, <<>>),
      PageOf("none", FALSE, None, <<Some("a")>>),
      PageOf("none", FALSE, Some("a"), <<Some("a"), Some("b")>>),
      PageOf("none", FALSE, Some("b"), <<Some("b"), None>>),
      PageOf("none", TRUE, Some("a"), <<>>),
      PageOf("none", TRUE, Some("a"), <<Some("b")>>),
      PageOf("none", TRUE, Some("b"), <<Some("a"), Some("b")>>),
      PageOf("none", TRUE, Some(""), <<Some("b"), None>>),
      PageOf("none", TRUE, None, <<Some("a")>>),
      PageOf("none", TRUE, Some(""), <<Some("")>>),
      PageOf("none", TRUE, None, <<>>) }
ProjectsPages == ProjectsConnections \cup FailedPages

(* The opsgenie-teams pages the server can send, embedded or fetched. *)
TeamEdge(cursor, id) == [cursor |-> cursor, id |-> id]
TeamsConnections ==
    { PageOf("none", FALSE, None, <<>>),
      PageOf("none", FALSE, Some("a"), <<TeamEdge(Some("a"), "t1")>>),
      PageOf("none", FALSE, Some("b"),
             <<TeamEdge(Some("b"), "t2"), TeamEdge(None, " t1")>>),
      PageOf("none", TRUE, Some("a"), <<TeamEdge(Some("b"), "t1")>>),
      PageOf("none", TRUE, Some("b"), <<>>),
      PageOf("none", TRUE, None, <<TeamEdge(Some("b"), "t2"), TeamEdge(None, " t1")>>),
      PageOf("none", TRUE, Some(""), <<TeamEdge(Some("a"), "t1")>>),
      PageOf("none", TRUE, None, <<>>) }
TeamsPages == TeamsConnections \cup FailedPages

(* PageInfo.from_dict and the edges' from_dict: a cursor the schema does   *)
(* not expose is not read.                                                 *)
ParseCursor(exposed, raw) == IF exposed THEN raw ELSE None

(* JiraProjectsConnection.from_dict; the node of edge i of page n is       *)
(* project <<n, i>>.                                                       *)
ParseProjects(raw, n) ==
    [has_next_page |-> raw.has_next_page,
     end_cursor |-> ParseCursor(PAGEINFO_HAS_END_CURSOR, raw.end_cursor),
     cursors |-> [i \in 1..Len(raw.edges) |->
                    ParseCursor(PROJECTS_EDGE_HAS_CURSOR, raw.edges[i])],
     nodes |-> [i \in 1..Len(raw.edges) |-> <<n, i>>]]

(* OpsgenieTeamsConnection.from_dict *)
ParseTeams(raw) ==
    [has_next_page |-> raw.has_next_page,
     end_cursor |-> ParseCursor(PAGEINFO_HAS_END_CURSOR, raw.end_cursor),
     cursors |-> [i \in 1..Len(raw.edges) |->
                    ParseCursor(OPSGENIE_EDGE_HAS_CURSOR, raw.edges[i].cursor)],
     nodes |-> [i \in 1..Len(raw.edges) |-> raw.edges[i].id]]

(* Mutant: the first edge's cursor is taken, empty or not. *)
LastEdgeCursor_First(edges_cursors) ==
    IF edges_cursors = <<>> THEN None ELSE Head(edges_cursors)

(* for cursor in reversed(edges_cursors): if cursor: return cursor *)
RECURSIVE LastEdgeCursor(_)
LastEdgeCursor(edges_cursors) ==
    IF edges_cursors = <<>> THEN None
    ELSE IF Truthy(edges_cursors[Len(edges_cursors)])
    THEN edges_cursors[Len(edges_cursors)]
    ELSE LastEdgeCursor(SubSeq(edges_cursors, 1, Len(edges_cursors) - 1))

(* Mutant: a page's end cursor is followed whatever has_next_page says. *)
_next_after_from_pageinfo_IgnoresHasNext(has_next_page, end_cursor, edge_has_cursor, edges_cursors) ==
    IF PAGEINFO_HAS_END_CURSOR /\ Truthy(end_cursor)
    THEN [ok |-> TRUE, after |-> end_cursor]
    ELSE [ok |-> TRUE, after |-> None]

(* _next_after_from_pageinfo: None to stop, the next cursor, or the        *)
(* SerializationError "Pagination cursor missing" (ok = FALSE).            *)
_next_after_from_pageinfo(has_next_page, end_cursor, edge_has_cursor, edges_cursors) ==
    IF ~has_next_page THEN [ok |-> TRUE, after |-> None]
    ELSE IF PAGEINFO_HAS_END_CURSOR /\ Truthy(end_cursor)
    THEN [ok |-> TRUE, after |-> end_cursor]
    ELSE IF edge_has_cursor /\ LastEdgeCursor(edges_cursors) # None
    THEN [ok |-> TRUE, after |-> LastEdgeCursor(edges_cursors)]
    ELSE [ok |-> FALSE, after |-> None]

(* Mutant: a repeated cursor is not noticed. *)
CursorRepeated_Never(next_after, seen) == FALSE

(* next_after in seen_after *)
CursorRepeated(next_after, seen) == Get(next_after) \in seen

(* Mutant: the nested walk starts from the cursors the outer walk has seen. *)
NestedSeen_Shared(first_after) == seen_after \cup {Get(first_after)}

(* seen_after = {after} at the start of _paginate_opsgenie_teams *)
NestedSeen(first_after) == {Get(first_after)}

(* Mutant: the fetched nodes are put before the ones already collected. *)
Extend_Prepend(list, nodes) == nodes \o list

(* list.extend(nodes) *)
Extend(list, nodes) == list \o nodes

(* Mutant: an embedded connection with more pages is not drained. *)
NeedsDrain_Never(teams_conn) == FALSE

(* if teams_conn.page_info.has_next_page *)
NeedsDrain(teams_conn) == teams_conn.has_next_page

(* str.strip() on the team ids of the model. *)
StripId(id) == IF id = " t1" THEN "t1" ELSE id

(* map_project_with_opsgenie_teams: the team ids stripped, each kept once. *)
RECURSIVE MapTeams(_, _)
MapTeams(ids, acc) ==
    IF ids = <<>> THEN acc
    ELSE LET team_id == StripId(Head(ids)) IN
         MapTeams(Tail(ids),
                  IF \E i \in 1..Len(acc) : acc[i] = team_id
                  THEN acc ELSE Append(acc, team_id))

map_project_with_opsgenie_teams(project, opsgenie_teams) ==
    [project |-> project, opsgenie_teams |-> MapTeams(opsgenie_teams, <<>>)]

(* The entries of `events`. *)
ExecuteRaised(fail) == IF fail \in ExecuteErrors THEN fail ELSE "none"
ReturnedFault(fail) == IF fail \in DataFaults THEN fail ELSE "none"
RequestEvent(walk, parent, cursor, fail) ==
    [type |-> "request", walk |-> walk, parent |-> parent, after |-> cursor,
     raised |-> ExecuteRaised(fail), fault |-> ReturnedFault(fail)]
YieldEvent(parent) ==
    [type |-> "yield", walk |-> "outer", parent |-> parent, after |-> None,
     raised |-> "none", fault |-> "none"]
Requests == Cardinality({i \in 1..Len(events) : events[i].type = "request"})

(* What a failed response raises: the executor's error as it is, or the    *)
(* iterator's own for missing or malformed data.                           *)
FailureOutcome_Wrapped(fail) ==
    IF fail = "malformed_with_errors"
    THEN WalkOutcome("GraphQLOperationError", "malformed")
    ELSE WalkOutcome("SerializationError",
                     IF fail \in ExecuteErrors THEN "execute"
                     ELSE IF fail = "data_none" THEN "data_missing" ELSE "malformed")

FailureOutcome_ErrorsFirst(fail) ==
    CASE fail \in ExecuteErrors -> WalkOutcome(fail, "execute")
      [] fail = "data_none" -> WalkOutcome("SerializationError", "data_missing")
      [] fail = "data_none_with_errors" -> WalkOutcome("GraphQLOperationError", "data_missing")
      [] fail = "malformed" -> WalkOutcome("SerializationError", "malformed")
      [] fail = "malformed_with_errors" -> WalkOutcome("GraphQLOperationError", "malformed")

FailureOutcome(fail) ==
    CASE fail \in ExecuteErrors -> WalkOutcome(fail, "execute")
      [] fail \in {"data_none", "data_none_with_errors"}
           -> WalkOutcome("SerializationError", "data_missing")
      [] fail = "malformed" -> WalkOutcome("SerializationError", "malformed")
      [] fail = "malformed_with_errors" -> WalkOutcome("GraphQLOperationError", "malformed")

(* A fresh iterator over some schema; the client and its bucket are idle. *)
InitCursor ==
    /\ client = "graphql"
    /\ strict = FALSE
    /\ max_retries_arg = 0
    /\ max_retries_429 = 0
    /\ max_wait_seconds = Seconds(60)
    /\ enable_local_throttling = FALSE
    /\ tokens = BucketCapacity
    /\ last_refill = T0
    /\ charges = <<>>
    /\ now = T0
    /\ pc = "idle"
    /\ retries = 0
    /\ cost_value = 1
    /\ response = None
    /\ respOpen = FALSE
    /\ exchanges = 0
    /\ attemptLog = <<>>
    /\ sleeps = <<>>
    /\ outcome = NoOutcome
    /\ ThreadsIdle
    /\ OffsetIdle
    /\ OAuthIdle
    /\ PAGEINFO_HAS_END_CURSOR \in BOOLEAN
    /\ PROJECTS_EDGE_HAS_CURSOR \in BOOLEAN
    /\ OPSGENIE_EDGE_HAS_CURSOR \in BOOLEAN
    /\ WalkStart

(* What the iterator's steps leave alone. *)
walkFrame == <<configVars, bucketVars, now, callVars, threadVars, schemaVars,
               offsetVars, oauthVars>>

nestedVars == <<teams, out, n_after, n_seen_after, n_conn>>
yieldVars == <<records, last_record, served>>

(* Mutant: the iterator runs on while the record is still being handed     *)
(* over.                                                                   *)
Resumed_NotAwaited == UNCHANGED <<last_record, served>>

(* The iterator runs on from a yield: the record is with the consumer. *)
Resumed ==
    /\ last_record' = NoRecord
    /\ served' = <<>>

(* The iterator fails: nothing more is requested or yielded. *)
WalkFails(result) ==
    /\ walk_outcome' = result
    /\ wpc' = "done"

(* First next() on the iterator: the arguments are validated, the outer    *)
(* walk starts without a cursor.                                           *)
IterStart(valid) ==
    /\ wpc = "idle"
    /\ IF valid
       THEN /\ wpc' = "outer"
            /\ UNCHANGED walk_outcome
       ELSE WalkFails(WalkOutcome("ValueError", "arguments"))
    /\ after' = None
    /\ seen_after' = {}
    /\ Resumed
    /\ UNCHANGED <<walkFrame, conn, page_no, edge_idx, nestedVars, records, events>>

(* One request of the outer walk and the parse of its response. *)
OuterRequest(resp) ==
    /\ wpc = "outer"
    /\ Requests < MaxRequests
    /\ events' = Append(events, RequestEvent("outer", <<>>, after, resp.fail))
    /\ IF resp.fail # "none"
       THEN /\ WalkFails(FailureOutcome(resp.fail))
            /\ UNCHANGED <<conn, page_no, edge_idx>>
       ELSE /\ conn' = ParseProjects(resp, page_no + 1)
            /\ page_no' = page_no + 1
            /\ edge_idx' = 1
            /\ wpc' = "edges"
            /\ UNCHANGED walk_outcome
    /\ UNCHANGED <<walkFrame, after, seen_after, nestedVars, yieldVars>>

(* yield map_project_with_opsgenie_teams(project, teams) after the events  *)
(* `log`; `sent` are the team ids the server sent for the project, in the  *)
(* order it sent them.                                                     *)
YieldRecord(project, all_teams, sent, teams_conn, log) ==
    /\ last_record' = map_project_with_opsgenie_teams(project, all_teams)
    /\ records' = Append(records, project)
    /\ served' = sent
    /\ events' = Append(log, YieldEvent(project))
    /\ edge_idx' = edge_idx + 1
    /\ wpc' = "edges"
    /\ teams' = <<>>
    /\ out' = <<>>
    /\ n_after' = None
    /\ n_seen_after' = {}
    /\ n_conn' = Some(teams_conn)
    /\ UNCHANGED walk_outcome

(* The iterator fails inside the handling of an edge, after the events     *)
(* `log`; `last_conn` is the teams page it fails on, if there is one.      *)
EdgeFails(result, last_conn, log) ==
    /\ WalkFails(result)
    /\ n_conn' = last_conn
    /\ events' = log
    /\ Resumed
    /\ UNCHANGED <<teams, out, n_after, n_seen_after, records, edge_idx>>

(* The next edge of the page: its embedded teams connection `embedded`     *)
(* either completes the record or starts _paginate_opsgenie_teams, which   *)
(* needs the project's id or key (`has_ref`) for its requests.             *)
ProcessEdge(embedded, has_ref) ==
    /\ wpc = "edges"
    /\ edge_idx <= Len(conn.nodes)
    /\ LET teams_conn == ParseTeams(embedded)
           first == _next_after_from_pageinfo(teams_conn.has_next_page,
                                              teams_conn.end_cursor,
                                              OPSGENIE_EDGE_HAS_CURSOR,
                                              teams_conn.cursors)
       IN  IF ~NeedsDrain(teams_conn) \/ (first.ok /\ first.after = None)
           THEN YieldRecord(conn.nodes[edge_idx], teams_conn.nodes, teams_conn.nodes,
                            teams_conn, events)
           ELSE IF ~first.ok
           THEN EdgeFails(WalkOutcome("SerializationError", "cursor_missing"),
                          Some(teams_conn), events)
           ELSE IF ~has_ref
           THEN EdgeFails(WalkOutcome("SerializationError", "project_ref"),
                          Some(teams_conn), events)
           ELSE /\ teams' = teams_conn.nodes
                /\ out' = <<>>
                /\ n_after' = first.after
                /\ n_seen_after' = NestedSeen(first.after)
                /\ n_conn' = Some(teams_conn)
                /\ wpc' = "nested"
                /\ Resumed
                /\ UNCHANGED <<walk_outcome, events, records, edge_idx>>
    /\ UNCHANGED <<walkFrame, after, seen_after, conn, page_no>>

(* One request of _paginate_opsgenie_teams and what follows its response:  *)
(* the next request, or the end of the nested walk and the parent's yield. *)
NestedRequest(resp) ==
    /\ wpc = "nested"
    /\ Requests < MaxRequests
    /\ LET project == conn.nodes[edge_idx]
           requested == Append(events, RequestEvent("nested", project, n_after, resp.fail))
           teams_conn == ParseTeams(resp)
           fetched == Extend(out, teams_conn.nodes)
           next == _next_after_from_pageinfo(teams_conn.has_next_page,
                                             teams_conn.end_cursor,
                                             OPSGENIE_EDGE_HAS_CURSOR,
                                             teams_conn.cursors)
       IN  IF resp.fail # "none"
           THEN EdgeFails(FailureOutcome(resp.fail), None, requested)
           ELSE IF ~next.ok
           THEN EdgeFails(WalkOutcome("SerializationError", "cursor_missing"),
                          Some(teams_conn), requested)
           ELSE IF next.after = None
           THEN YieldRecord(project, Extend(teams, fetched),
                            teams \o out \o teams_conn.nodes, teams_conn, requested)
           ELSE IF CursorRepeated(next.after, n_seen_after)
           THEN EdgeFails(WalkOutcome("SerializationError", "cursor_repeated"),
                          Some(teams_conn), requested)
           ELSE /\ n_seen_after' = n_seen_after \cup {Get(next.after)}
                /\ n_after' = next.after
                /\ out' = fetched
                /\ events' = requested
                /\ n_conn' = Some(teams_conn)
                /\ UNCHANGED <<wpc, walk_outcome, teams, yieldVars, edge_idx>>
    /\ UNCHANGED <<walkFrame, after, seen_after, conn, page_no>>

(* After the last edge of a page: the next outer cursor, or the end. *)
Advance ==
    /\ wpc = "edges"
    /\ edge_idx > Len(conn.nodes)
    /\ LET next == _next_after_from_pageinfo(conn.has_next_page, conn.end_cursor,
                                             PROJECTS_EDGE_HAS_CURSOR, conn.cursors)
       IN  IF ~next.ok
           THEN /\ WalkFails(WalkOutcome("SerializationError", "cursor_missing"))
                /\ UNCHANGED <<after, seen_after>>
           ELSE IF next.after = None
           THEN /\ WalkFails(WalkOutcome("exhausted", "none"))
                /\ UNCHANGED <<after, seen_after>>
           ELSE IF CursorRepeated(next.after, seen_after)
           THEN /\ WalkFails(WalkOutcome("SerializationError", "cursor_repeated"))
                /\ UNCHANGED <<after, seen_after>>
           ELSE /\ seen_after' = seen_after \cup {Get(next.after)}
                /\ after' = next.after
                /\ wpc' = "outer"
                /\ UNCHANGED walk_outcome
    /\ Resumed
    /\ n_conn' = None
    /\ UNCHANGED <<walkFrame, conn, page_no, edge_idx, teams, out, n_after,
                   n_seen_after, records, events>>

NextCursor ==
    \/ \E valid \in BOOLEAN : IterStart(valid)
    \/ \E resp \in ProjectsPages : OuterRequest(resp)
    \/ \E embedded \in TeamsConnections : \E has_ref \in BOOLEAN :
         ProcessEdge(embedded, has_ref)
    \/ \E resp \in TeamsPages : NestedRequest(resp)
    \/ Advance

SpecCursor == InitCursor /\ [][NextCursor]_vars

----------------------------------------------------------------------------
(* Offset pagination: iter_projects_via_rest, iter_issues_via_rest and     *)
(* iter_issue_worklogs_via_rest over JiraRestClient.get_json.              *)

MaxOffsetRequests == 3
MaxPageSize == 2

OffsetIterators == {"projects", "issues", "worklogs"}

(* What get_json and from_dict can do to a request: return a page, raise   *)
(* the executor's error, or find the payload malformed.                    *)
OffsetFailures == {"RateLimitError", "TransportError", "malformed"}
OffsetResponse(fail, count, total, is_last) ==
    [fail |-> fail, count |-> count, total |-> total, is_last |-> is_last,
     typed |-> count]
OffsetResponses ==
    {r \in {[OffsetResponse("none", c, t, l) EXCEPT !.typed = k] :
               c \in 0..(MaxPageSize + 1),
               t \in {None, Some(-1)} \cup {Some(n) : n \in 0..(2 * MaxPageSize)},
               l \in {None, Some(TRUE), Some(FALSE)},
               k \in 0..(MaxPageSize + 1)} : r.typed <= r.count}
    \cup {OffsetResponse(f, 0, None, None) : f \in OffsetFailures}

(* The records the yield loop hands over for one page: every value, except *)
(* that iter_projects_via_rest skips the projects whose type is missing or *)
(* not among the requested ones (raw.typed counts the values that pass).   *)
Yielded(it, raw) == IF it = "projects" THEN raw.typed ELSE raw.count

(* from_dict: only PageBeanProject has an isLast field. *)
ParseOffsetPage(it, raw) ==
    OffsetPage(raw.count, raw.total, IF it = "projects" THEN raw.is_last ELSE None)

OffsetOutcome(kind, why) == [kind |-> kind, why |-> why]
NoOffsetOutcome == OffsetOutcome("none", "none")

(* Mutant: an empty page that is not the last by flag or total goes on to  *)
(* the next request.                                                       *)
AfterPage_EmptyGoesOn(it, pg, start, size) ==
    LET has_is_last == it = "projects" /\ IsSome(pg.is_last)
        has_total == IsSome(pg.total) /\ Get(pg.total) >= 0
    IN  IF has_is_last /\ Get(pg.is_last) THEN "stop"
        ELSE IF has_total /\ start + pg.count >= Get(pg.total) THEN "stop"
        ELSE IF ~has_total /\ pg.count < size THEN "stop"
        ELSE "continue"

(* Mutant: the call goes on when the page ends exactly at the total. *)
AfterPage_PastTotal(it, pg, start, size) ==
    LET has_is_last == it = "projects" /\ IsSome(pg.is_last)
        has_total == IsSome(pg.total) /\ Get(pg.total) >= 0
    IN  IF has_is_last /\ Get(pg.is_last) THEN "stop"
        ELSE IF has_total /\ start + pg.count > Get(pg.total) THEN "stop"
        ELSE IF ~has_total /\ pg.count < size THEN "stop"
        ELSE IF pg.count = 0
        THEN IF has_is_last /\ ~Get(pg.is_last) THEN "fail" ELSE "stop"
        ELSE "continue"

(* The end of one loop iteration: "stop" (break), "fail" (raise) or        *)
(* "continue", for the page `pg` requested at `start`.                     *)
AfterPage(it, pg, start, size) ==
    LET has_is_last == it = "projects" /\ IsSome(pg.is_last)
        has_total == IsSome(pg.total) /\ Get(pg.total) >= 0
    IN  IF has_is_last /\ Get(pg.is_last) THEN "stop"
        ELSE IF has_total /\ start + pg.count >= Get(pg.total) THEN "stop"
        ELSE IF ~has_total /\ pg.count < size THEN "stop"
        ELSE IF pg.count = 0
        THEN IF has_is_last /\ ~Get(pg.is_last) THEN "fail" ELSE "stop"
        ELSE "continue"

(* Mutant: the offset advances by the page size asked for. *)
NextStartAt_ByPageSize(start, count) == start + page_size

(* start_at += len(values) *)
NextStartAt_Stuck(start, count) == start

NextStartAt(start, count) == start + count

(* A client on which no call is running. *)
InitOffset ==
    /\ client = "rest"
    /\ strict = FALSE
    /\ max_retries_arg = 0
    /\ max_retries_429 = 0
    /\ max_wait_seconds = Seconds(60)
    /\ enable_local_throttling = FALSE
    /\ tokens = BucketCapacity
    /\ last_refill = T0
    /\ charges = <<>>
    /\ now = T0
    /\ pc = "idle"
    /\ retries = 0
    /\ cost_value = 1
    /\ response = None
    /\ respOpen = FALSE
    /\ exchanges = 0
    /\ attemptLog = <<>>
    /\ sleeps = <<>>
    /\ outcome = NoOutcome
    /\ ThreadsIdle
    /\ WalkIdle
    /\ OAuthIdle
    /\ iterator \in OffsetIterators
    /\ page_size \in 0..MaxPageSize
    /\ opc = "idle"
    /\ start_at = 0
    /\ seen_start_at = {}
    /\ offsets = <<>>
    /\ page = NoPage
    /\ delivered = <<>>
    /\ yielded = 0
    /\ offset_outcome = NoOffsetOutcome

offsetFrame == <<configVars, bucketVars, now, callVars, threadVars, walkVars,
                 oauthVars>>

(* First next() on the iterator: page_size is validated. *)
OffsetStart ==
    /\ opc = "idle"
    /\ IF page_size <= 0
       THEN /\ opc' = "done"
            /\ offset_outcome' = OffsetOutcome("ValueError", "arguments")
       ELSE /\ opc' = "request"
            /\ UNCHANGED offset_outcome
    /\ start_at' = 0
    /\ seen_start_at' = {}
    /\ UNCHANGED <<offsetFrame, iterator, page_size, offsets, page, delivered, yielded>>

(* The iterator ends. *)
OffsetEnds(result) ==
    /\ opc' = "done"
    /\ offset_outcome' = result
    /\ UNCHANGED start_at

(* One iteration of the loop: the seen check, the request, the values      *)
(* passed on, and the decision to stop, fail or go on.                     *)
OffsetRequest(resp) ==
    /\ opc = "request"
    /\ Len(offsets) < MaxOffsetRequests
    /\ IF start_at \in seen_start_at
       THEN /\ OffsetEnds(OffsetOutcome("SerializationError", "offset_repeated"))
            /\ UNCHANGED <<seen_start_at, offsets, page, delivered, yielded>>
       ELSE /\ seen_start_at' = seen_start_at \cup {start_at}
            /\ offsets' = Append(offsets, start_at)
            /\ IF resp.fail # "none"
               THEN /\ OffsetEnds(IF resp.fail = "malformed"
                                  THEN OffsetOutcome("SerializationError", "malformed")
                                  ELSE OffsetOutcome(resp.fail, "get_json"))
                    /\ page' = NoPage
                    /\ UNCHANGED <<delivered, yielded>>
               ELSE LET pg == ParseOffsetPage(iterator, resp)
                        then == AfterPage(iterator, pg, start_at, page_size)
                    IN  /\ page' = pg
                        /\ delivered' = Append(delivered, pg.count)
                        /\ yielded' = yielded + Yielded(iterator, resp)
                        /\ CASE then = "stop"
                                  -> OffsetEnds(OffsetOutcome("exhausted", "none"))
                             [] then = "fail"
                                  -> OffsetEnds(OffsetOutcome("SerializationError",
                                                              "empty_not_last"))
                             [] then = "continue"
                                  -> /\ start_at' = NextStartAt(start_at, pg.count)
                                     /\ UNCHANGED <<opc, offset_outcome>>
    /\ UNCHANGED <<offsetFrame, iterator, page_size>>

NextOffset ==
    \/ OffsetStart
    \/ \E resp \in OffsetResponses : OffsetRequest(resp)

SpecOffset == InitOffset /\ [][NextOffset]_vars

----------------------------------------------------------------------------
(* OAuthRefreshTokenAuth: threads calling apply on one shared instance.    *)

MaxApplyCalls == 3
AuthClockStep == Seconds(30)
AuthHorizon == Seconds(90)

(* What the token endpoint can answer through refresh_access_token: an     *)
(* error, or a token with its lifetime and perhaps a new refresh token.    *)
TokenFailures == {"TransportError", "SerializationError"}
TokenResponse(fail, expires_in, rotated) ==
    [fail |-> fail, expires_in |-> expires_in, rotated |-> rotated]
TokenResponses ==
    { TokenResponse("none", Seconds(0 - 30), FALSE),
      TokenResponse("none", Seconds(90), FALSE),
      TokenResponse("none", Seconds(90), TRUE),
      TokenResponse("none", Seconds(3600), FALSE) }
    \cup {TokenResponse(f, 0, FALSE) : f \in TokenFailures}

(* if self._access_token and self._expires_at:                            *)
(*     if now + self._refresh_margin < self._expires_at: return it        *)
CachedValid_AtExpiry(token, expiry, clock, margin) ==
    IsSome(token) /\ IsSome(expiry) /\ clock + margin <= Get(expiry)

CachedValid(token, expiry, clock, margin) ==
    IsSome(token) /\ IsSome(expiry) /\ clock + margin < Get(expiry)

(* expires_in clamped at 0 and added to the clock read at the start. *)
ExpiryOf(clock, expires_in) == clock + (IF expires_in < 0 THEN 0 ELSE expires_in)

(* threading.Lock: acquired only when free. *)
AuthLockFree_Ignored(holder) == TRUE

AuthLockFree(holder) == holder = 0

(* The lock between the two assignments of the cache: still held. *)
HolderWhileStoring_Released(t) == 0

HolderWhileStoring(t) == t

(* A finished apply call: the headers it produced or the error it raised. *)
ApplyEntry(t, clock, refreshed, error, token, expiry) ==
    [thread |-> t, now |-> clock, refreshed |-> refreshed, error |-> error,
     token |-> token, expires |-> expiry, overlap |-> aloc[t].overlap]

InitOAuth ==
    /\ client = "graphql"
    /\ strict = FALSE
    /\ max_retries_arg = 0
    /\ max_retries_429 = 0
    /\ max_wait_seconds = Seconds(60)
    /\ enable_local_throttling = FALSE
    /\ tokens = BucketCapacity
    /\ last_refill = T0
    /\ charges = <<>>
    /\ now = T0
    /\ pc = "idle"
    /\ retries = 0
    /\ cost_value = 1
    /\ response = None
    /\ respOpen = FALSE
    /\ exchanges = 0
    /\ attemptLog = <<>>
    /\ sleeps = <<>>
    /\ outcome = NoOutcome
    /\ ThreadsIdle
    /\ WalkIdle
    /\ OffsetIdle
    /\ refresh_margin \in {0, Seconds(60)}
    /\ OAuthStart

oauthFrame == <<configVars, bucketVars, callVars, threadVars, walkVars, offsetVars,
                refresh_margin>>

(* A thread calls apply. *)
ApplyCall(t) ==
    /\ apc[t] = "idle"
    /\ Len(applyLog) + Cardinality({u \in Threads : apc[u] # "idle"}) < MaxApplyCalls
    /\ apc' = [apc EXCEPT ![t] = "waiting"]
    /\ aloc' = [aloc EXCEPT ![t] = [NoApply EXCEPT !.overlap = auth_lock # 0]]
    /\ UNCHANGED <<oauthFrame, now, auth_lock, access_token, expires_at, refresh_token,
                   applyLog, tokenRequests>>

(* with self._lock: *)
AuthAcquire(t) ==
    /\ apc[t] = "waiting"
    /\ AuthLockFree(auth_lock)
    /\ auth_lock' = t
    /\ apc' = [apc EXCEPT ![t] = "locked"]
    /\ UNCHANGED <<oauthFrame, now, access_token, expires_at, refresh_token, aloc,
                   applyLog, tokenRequests>>

(* The clock is read and the cache checked: the cached token is returned   *)
(* and the lock released, or a refresh follows.                            *)
AuthCheck(t) ==
    /\ apc[t] = "locked"
    /\ IF CachedValid(access_token, expires_at, now, refresh_margin)
       THEN /\ applyLog' = Append(applyLog,
                                  ApplyEntry(t, now, FALSE, "none", access_token, None))
            /\ auth_lock' = 0
            /\ apc' = [apc EXCEPT ![t] = "idle"]
            /\ aloc' = [aloc EXCEPT ![t] = NoApply]
       ELSE /\ aloc' = [aloc EXCEPT ![t].now = now]
            /\ apc' = [apc EXCEPT ![t] = "refreshing"]
            /\ UNCHANGED <<applyLog, auth_lock>>
    /\ UNCHANGED <<oauthFrame, now, access_token, expires_at, refresh_token,
                   tokenRequests>>

(* Mutant: a failed refresh drops the cached token. *)
CachedAfterError_Cleared(token) == None

(* refresh_access_token raises before self._access_token is assigned. *)
CachedAfterError(token) == token

(* refresh_access_token and, when it returns, self._access_token = ...;    *)
(* when it raises, the lock is released with the cache as it was.          *)
AuthRefresh(t, resp) ==
    /\ apc[t] = "refreshing"
    /\ tokenRequests' = tokenRequests + 1
    /\ IF resp.fail # "none"
       THEN /\ applyLog' = Append(applyLog,
                                  ApplyEntry(t, aloc[t].now, TRUE, resp.fail, None, None))
            /\ auth_lock' = 0
            /\ apc' = [apc EXCEPT ![t] = "idle"]
            /\ aloc' = [aloc EXCEPT ![t] = NoApply]
            /\ access_token' = CachedAfterError(access_token)
       ELSE /\ access_token' = Some(tokenRequests + 1)
            /\ aloc' = [aloc EXCEPT ![t].expires_in = resp.expires_in,
                                    ![t].rotated = resp.rotated]
            /\ auth_lock' = HolderWhileStoring(t)
            /\ apc' = [apc EXCEPT ![t] = "storing"]
            /\ UNCHANGED applyLog
    /\ UNCHANGED <<oauthFrame, now, expires_at, refresh_token>>

(* self._expires_at = ..., the refresh token is replaced when a new one    *)
(* came, the token is returned and the lock released.                      *)
AuthStore(t) ==
    /\ apc[t] = "storing"
    /\ expires_at' = Some(ExpiryOf(aloc[t].now, aloc[t].expires_in))
    /\ refresh_token' = IF aloc[t].rotated THEN tokenRequests ELSE refresh_token
    /\ applyLog' = Append(applyLog,
                          ApplyEntry(t, aloc[t].now, TRUE, "none", access_token,
                                     Some(ExpiryOf(aloc[t].now, aloc[t].expires_in))))
    /\ auth_lock' = 0
    /\ apc' = [apc EXCEPT ![t] = "idle"]
    /\ aloc' = [aloc EXCEPT ![t] = NoApply]
    /\ UNCHANGED <<oauthFrame, now, access_token, tokenRequests>>

(* Time passes. *)
AuthTick ==
    /\ now < T0 + AuthHorizon
    /\ now' = now + AuthClockStep
    /\ UNCHANGED <<oauthFrame, oauthVars>>

NextOAuth ==
    \/ \E t \in Threads : ApplyCall(t)
    \/ \E t \in Threads : AuthAcquire(t)
    \/ \E t \in Threads : AuthCheck(t)
    \/ \E t \in Threads : \E resp \in TokenResponses : AuthRefresh(t, resp)
    \/ \E t \in Threads : AuthStore(t)
    \/ AuthTick

SpecOAuth == InitOAuth /\ [][NextOAuth]_vars

----------------------------------------------------------------------------
(* Helpers of the properties. *)
LastEntry == attemptLog[Len(attemptLog)]
Done == pc = "done"

(* C1: whatever the server answers, one execute / get_json call issues at  *)
(* most max(0, max_retries_429) + 1 HTTP exchanges, and a started call     *)
(* always ends (returns or raises).                                        *)
C1_BoundedAttempts ==
    /\ [](exchanges <= Max(0, max_retries_arg) + 1)
    /\ (pc # "idle") ~> Done

(* C1 witness: a call that used every allowed exchange and then raised. *)
C1_Witness ==
    /\ Done
    /\ max_retries_arg = MaxRetriesArg
    /\ exchanges = max_retries_arg + 1
    /\ outcome.kind = "RateLimitError"

(* Whether a client's parser accepts a header (the clock plays no part). *)
Parseable(header) == ParseHeader(client, header, 0).ok

(* A failure that must end the call: transport failure, error status,    *)
(* unparseable body, unparseable Retry-After.                            *)
IsFailure(e) ==
    \/ e.status = 0
    \/ e.status >= 400 /\ e.status # 429
    \/ e.status \in 1..399 /\ e.body = "notjson"
    \/ e.status = 429 /\ ~Parseable(e.header)

FailureKind(e) ==
    IF e.status = 429 THEN "RateLimitError"
    ELSE IF e.status = 0 \/ e.status >= 400 THEN "TransportError"
    ELSE "SerializationError"

(* C2: every HTTP attempt after the first directly follows a 429 whose     *)
(* Retry-After parsed; a transport failure, a non-429 error status, a body *)
(* that does not parse or an unparseable Retry-After is the last exchange  *)
(* of its call and ends it with the matching error.                        *)
C2_RetryOnlyAfterParsed429 ==
    /\ \A i \in 1..Len(attemptLog) :
         i < Len(attemptLog) =>
            /\ attemptLog[i].status = 429
            /\ Parseable(attemptLog[i].header)
    /\ \A i \in 1..Len(attemptLog) :
         IsFailure(attemptLog[i]) =>
            /\ i = Len(attemptLog)
            /\ pc \in {"handle", "done"}
            /\ Done => outcome.kind = FailureKind(attemptLog[i])

(* C2 witness: a second attempt, after a parsed 429, got a 429 with an     *)
(* unparseable Retry-After and ended the call though a retry was left.     *)
C2_Witness ==
    /\ Done
    /\ Len(attemptLog) = 2
    /\ attemptLog[1].status = 429
    /\ LastEntry.status = 429
    /\ ~Parseable(LastEntry.header)
    /\ retries < max_retries_429

(* The 429-path sleeps, in order. *)
Sleeps429 == SelectSeq(sleeps, LAMBDA x : x[1] = "429")

(* Whether entry e of the log is a handled 429 with a parsed header. *)
Parsed429(e) == e.status = 429 /\ e.result # "pending" /\ IsSome(e.computed_wait)

(* C3: a 429 whose computed wait (retry_at - now) is over max_wait_seconds *)
(* fails at once with RateLimitError carrying wait_seconds = the computed  *)
(* wait and max_wait_seconds, with no sleep and no further attempt, also   *)
(* when retries remain; the 429 path never sleeps longer than              *)
(* max_wait_seconds.                                                       *)
C3_OverCapFailsWithoutSleeping ==
    /\ \A i \in 1..Len(sleeps) :
         sleeps[i][1] = "429" => sleeps[i][2] <= max_wait_seconds
    /\ \A i \in 1..Len(attemptLog) :
         (Parsed429(attemptLog[i]) /\ Get(attemptLog[i].computed_wait) > max_wait_seconds)
         => /\ i = Len(attemptLog)
            /\ Done
            /\ exchanges = i
            /\ attemptLog[i].slept = None
            /\ Len(Sleeps429) <= i - 1
            /\ outcome.kind = "RateLimitError"
            /\ outcome.wait_seconds = attemptLog[i].computed_wait
            /\ Get(outcome.wait_seconds) = Get(outcome.retry_after) - now
            /\ outcome.max_wait_seconds = Some(max_wait_seconds)

(* C3 witness: an over-cap 429 on the first attempt of a call that still   *)
(* had retries.                                                            *)
C3_Witness ==
    /\ Done
    /\ Len(attemptLog) = 1
    /\ Parsed429(LastEntry)
    /\ Get(LastEntry.computed_wait) > max_wait_seconds
    /\ retries < max_retries_429
    /\ max_wait_seconds > 0

(* C4: a RateLimitError for a parseable Retry-After carries                *)
(* max_wait_seconds exactly when the computed wait was over                *)
(* max_wait_seconds; the retries-exhausted error leaves it unset, and when *)
(* both hold the wait-exceeded shape is raised.                            *)
C4_TwoErrorShapes ==
    (Done /\ outcome.kind = "RateLimitError" /\ IsSome(outcome.retry_after))
    => /\ IsSome(outcome.max_wait_seconds)
            <=> (Get(outcome.retry_after) - now > max_wait_seconds)
       /\ ~IsSome(outcome.max_wait_seconds) => retries >= max_retries_429
       /\ IsSome(outcome.wait_seconds)

(* C4 witness: no retry left and the wait over the cap at once. *)
C4_Witness ==
    /\ Done
    /\ outcome.kind = "RateLimitError"
    /\ IsSome(outcome.retry_after)
    /\ retries >= max_retries_429
    /\ max_retries_429 > 0
    /\ Get(outcome.retry_after) - now > max_wait_seconds
    /\ IsSome(outcome.max_wait_seconds)

(* C5: with max_retries = 1 and a first 429 within max_wait_seconds, the   *)
(* executor sleeps the computed wait, retries once and returns the second  *)
(* response's data; a second 429 fails with RateLimitError(attempts = 2).  *)
(* The attempts field of any RateLimitError is the number of HTTP          *)
(* exchanges the call has issued.                                          *)
C5_SingleRetryScenario ==
    /\ (Done /\ outcome.kind = "RateLimitError") => outcome.attempts = Some(exchanges)
    /\ (max_retries_429 = 1 /\ Len(attemptLog) >= 1 /\ Parsed429(attemptLog[1])
          /\ Get(attemptLog[1].computed_wait) <= max_wait_seconds)
       => LET first == attemptLog[1]
              w == Get(first.computed_wait)
          IN  /\ first.result = "retry"
              /\ retries = 1
              /\ exchanges <= 2
              /\ Sleeps429 = IF w > 0 THEN << <<"429", w>> >> ELSE <<>>
              /\ (Done /\ Len(attemptLog) = 2) =>
                   /\ LastEntry.status = 429 =>
                        /\ outcome.kind = "RateLimitError"
                        /\ outcome.attempts = Some(2)
                   /\ (LastEntry.status = 200 /\ LastEntry.body = "object") =>
                        /\ outcome.kind = "result"
                        /\ outcome.data = BodyOutcome(client, "object", strict).data
                        /\ IsSome(outcome.data)

(* C5 witness: the first 429 asked for two seconds, the executor slept     *)
(* them, and the second response was a 429 again.                          *)
C5_Witness ==
    /\ Done
    /\ max_retries_429 = 1
    /\ Len(attemptLog) = 2
    /\ attemptLog[1].computed_wait = Some(Seconds(2))
    /\ Sleeps429 = << <<"429", Seconds(2)>> >>
    /\ LastEntry.status = 429
    /\ outcome.attempts = Some(2)

(* C6: a 429 whose Retry-After is at or before now, with a retry allowed,  *)
(* is retried at once without a sleeper call; the sleeper is never called  *)
(* with a zero or negative duration.                                       *)
C6_NoSleepForPastRetryAfter ==
    /\ \A i \in 1..Len(sleeps) : sleeps[i][2] > 0
    /\ \A i \in 1..Len(attemptLog) :
         (Parsed429(attemptLog[i]) /\ Get(attemptLog[i].computed_wait) <= 0
            /\ i <= max_retries_429)
         => /\ attemptLog[i].result = "retry"
            /\ attemptLog[i].slept = None
            /\ retries >= i
    /\ Len(Sleeps429) =
         Cardinality({i \in 1..Len(attemptLog) :
                        /\ attemptLog[i].result = "retry"
                        /\ Get(attemptLog[i].computed_wait) > 0})

(* C6 witness: a retry after a Retry-After in the past, with no sleep. *)
C6_Witness ==
    /\ Len(attemptLog) = 2
    /\ attemptLog[1].result = "retry"
    /\ Get(attemptLog[1].computed_wait) <= 0
    /\ sleeps = <<>>
    /\ Done
    /\ outcome.kind = "result"

(* C7: a status >= 500, or a 4xx other than 429, fails the call with       *)
(* TransportError carrying that status after that one exchange; it is      *)
(* never retried, whatever max_retries_429 is.                             *)
C7_ErrorStatusNotRetried ==
    \A i \in 1..Len(attemptLog) :
      LET e == attemptLog[i] IN
      (e.status >= 400 /\ e.status # 429)
      => /\ i = Len(attemptLog)
         /\ exchanges = i
         /\ retries = i - 1
         /\ pc \in {"handle", "done"}
         /\ Done => outcome = TransportError(e.status)

(* C7 witness: a 503 ended a call that had two retries left. *)
C7_Witness ==
    /\ Done
    /\ max_retries_429 = MaxRetriesArg
    /\ retries = 0
    /\ exchanges = 1
    /\ LastEntry.status = 503
    /\ outcome.kind = "TransportError"

(* C8: every response whose status is neither 2xx nor 429 (1xx and 3xx     *)
(* included) fails the call with TransportError; none is parsed and        *)
(* returned as a result.                                                   *)
C8_NonSuccessStatusIsTransportError ==
    (Done /\ Len(attemptLog) >= 1 /\ LastEntry.status \notin 200..299
       /\ LastEntry.status # 429)
    => outcome.kind = "TransportError"

(* Headers of the kinds C9 names: absent, empty, blank, unsupported. *)
UnparseableHeaders ==
    {None, Some(<<>>), Some(<<SP>>), Some(<<SP, X, SP>>), Some(<<D(2), X>>)}

(* C9: a 429 whose Retry-After is absent, empty, blank or in no supported  *)
(* format fails the call with RateLimitError(retry_after = None, attempts  *)
(* = the current attempt number, header_value = the raw header), with no   *)
(* sleep and no further attempt even when retries remain.                  *)
C9_UnparseableRetryAfter ==
    /\ \A h \in UnparseableHeaders : ~Parseable(h)
    /\ \A i \in 1..Len(attemptLog) :
         LET e == attemptLog[i] IN
         (e.status = 429 /\ e.header \in UnparseableHeaders /\ e.result # "pending")
         => /\ i = Len(attemptLog)
            /\ Done
            /\ exchanges = i
            /\ e.slept = None
            /\ Len(Sleeps429) <= i - 1
            /\ outcome = RateLimitError(None, i, e.header, None, None)

(* C9 witness: a padded unsupported value on the second attempt, a retry   *)
(* still being allowed.                                                    *)
C9_Witness ==
    /\ Done
    /\ Len(attemptLog) = 2
    /\ LastEntry.status = 429
    /\ LastEntry.header = Some(<<SP, X, SP>>)
    /\ retries < max_retries_429
    /\ outcome.attempts = Some(2)

C11_UnparseableBodyIsSerializationError ==
    (Done /\ Len(attemptLog) >= 1 /\ LastEntry.status = 200
       /\ LastEntry.body \in {"notjson", "array"})
    => outcome.kind = "SerializationError"

(* C12: a rejection by the local bucket leaves execute as the bucket's     *)
(* LocalRateLimitError, unchanged, and the attempt it belongs to has no    *)
(* HTTP exchange: the exchanges made are those of the earlier attempts.    *)
C12_LocalRejectionPropagates ==
    /\ [](outcome.kind = "LocalRateLimitError"
            => Done /\ exchanges = retries /\ response = None /\ ~respOpen)
    /\ [][(pc = "throttle" /\ enable_local_throttling
             /\ ~Consume(tokens, last_refill, now, cost_value, max_wait_seconds).admitted)
           => /\ outcome' = LocalRateLimitError(
                               cost_value,
                               Consume(tokens, last_refill, now, cost_value,
                                       max_wait_seconds).wait,
                               max_wait_seconds)
              /\ pc' = "done"
              /\ exchanges' = exchanges
              /\ attemptLog' = attemptLog]_vars

(* C12 witness: the bucket rejects the second attempt of a call, after a   *)
(* retried 429; only the first attempt reached the server.                 *)
C12_Witness ==
    /\ Done
    /\ outcome.kind = "LocalRateLimitError"
    /\ retries = 1
    /\ exchanges = 1
    /\ outcome.wait_seconds # None
    /\ Get(outcome.wait_seconds) > max_wait_seconds

(* C13: a consume call whose projected wait is over max_wait_seconds fails *)
(* without calling the sleeper and without deducting: it slept nothing and *)
(* left the level at its refilled value.                                   *)
C13_RejectionWithoutSleep ==
    \A i \in 1..Len(consumeLog) :
      LET e == consumeLog[i] IN
      ~e.admitted => /\ e.wait > max_wait_seconds
                     /\ e.slept = 0
                     /\ e.level = e.available

ConsumeSerialized ==
    /\ Cardinality({t \in Threads : tpc[t] \in {"locked", "checked"}}) <= 1
    /\ \A t \in Threads :
         tpc[t] = "checked" => /\ lock = t
                               /\ tloc[t].seen_level = tokens
                               /\ tloc[t].seen_last = last_refill

----------------------------------------------------------------------------
(* Helpers of the pagination properties. *)

(* The positions in `events` of the requests of one walk: the outer walk   *)
(* (parent <<>>) or the nested walk of one parent.                         *)
RequestsOf(walk, parent) ==
    {i \in 1..Len(events) : /\ events[i].type = "request"
                            /\ events[i].walk = walk
                            /\ events[i].parent = parent}

(* The `after` values that walk has requested. *)
UsedAfters(walk, parent) == {events[i].after : i \in RequestsOf(walk, parent)}

(* The parent whose edge is being handled. *)
CurrentParent == conn.nodes[edge_idx]

(* The cursor a parsed page offers for the next request: its end cursor    *)
(* when non-empty, else the cursor of the last edge that has a non-empty   *)
(* one, else None.                                                         *)
ChosenCursor(c) ==
    LET carrying == {i \in 1..Len(c.cursors) : Truthy(c.cursors[i])} IN
    IF Truthy(c.end_cursor) THEN c.end_cursor
    ELSE IF carrying = {} THEN None
    ELSE c.cursors[CHOOSE i \in carrying : \A j \in carrying : j <= i]

(* The iterator has ended in the step that follows the last edge of an     *)
(* outer page: every page requested has arrived and been handled.          *)
OuterEvaluated ==
    /\ wpc = "done"
    /\ page_no >= 1
    /\ edge_idx > Len(conn.nodes)
    /\ Cardinality(RequestsOf("outer", <<>>)) = page_no

(* The iterator has ended on a teams page of the current parent. *)
NestedEvaluated ==
    /\ wpc = "done"
    /\ page_no >= 1
    /\ edge_idx <= Len(conn.nodes)
    /\ IsSome(n_conn)

(* The iterator is suspended at a yield. *)
JustYielded == wpc = "edges" /\ last_record # NoRecord

(* C16: within one walk (the outer one, or the nested one of one parent)   *)
(* no two requests carry the same `after`, and a page whose next cursor    *)
(* was already requested in that walk ends the iterator with               *)
(* SerializationError instead of a further request.                        *)
C16_RepeatedCursorStopsWalk ==
    /\ \A i, j \in 1..Len(events) :
         (/\ i < j
          /\ events[i].type = "request" /\ events[j].type = "request"
          /\ events[i].walk = events[j].walk /\ events[i].parent = events[j].parent)
         => events[i].after # events[j].after
    /\ wpc = "outer" => after \notin UsedAfters("outer", <<>>)
    /\ wpc = "nested" => n_after \notin UsedAfters("nested", CurrentParent)
    /\ walk_outcome.why = "cursor_repeated"
         => walk_outcome.kind = "SerializationError" /\ wpc = "done"
    /\ OuterEvaluated
         => (walk_outcome.why = "cursor_repeated"
               <=> /\ conn.has_next_page
                   /\ Truthy(ChosenCursor(conn))
                   /\ ChosenCursor(conn) \in UsedAfters("outer", <<>>))
    /\ NestedEvaluated
         => (walk_outcome.why = "cursor_repeated"
               <=> /\ Get(n_conn).has_next_page
                   /\ Truthy(ChosenCursor(Get(n_conn)))
                   /\ ChosenCursor(Get(n_conn)) \in UsedAfters("nested", CurrentParent))

(* C16 witness: the second page of a nested walk offers the cursor the     *)
(* walk has just requested.                                                *)
C16_Witness ==
    /\ NestedEvaluated
    /\ walk_outcome = WalkOutcome("SerializationError", "cursor_repeated")
    /\ Cardinality(RequestsOf("nested", CurrentParent)) = 1
    /\ ChosenCursor(Get(n_conn)) = events[Len(events)].after

(* C17: a page whose has_next_page is false ends its walk normally: no     *)
(* request of that walk is pending after it and the walk does not fail,    *)
(* whatever cursors the page carries.                                      *)
C17_NoNextPageEndsWalk ==
    /\ (wpc = "outer" /\ page_no >= 1) => conn.has_next_page
    /\ wpc = "nested" => Get(n_conn).has_next_page
    /\ (OuterEvaluated /\ ~conn.has_next_page)
         => walk_outcome = WalkOutcome("exhausted", "none")
    /\ NestedEvaluated => Get(n_conn).has_next_page
    /\ (JustYielded /\ ~Get(n_conn).has_next_page)
         => /\ events[Len(events)] = YieldEvent(last_record.project)
            /\ walk_outcome.kind = "none"

(* C17 witness: the outer walk ends normally on a page whose end cursor is *)
(* one the walk has already requested.                                     *)
C17_Witness ==
    /\ OuterEvaluated
    /\ walk_outcome.kind = "exhausted"
    /\ PAGEINFO_HAS_END_CURSOR
    /\ conn.end_cursor \in UsedAfters("outer", <<>>)
    /\ Len(conn.nodes) = 2

(* C18: after a page with has_next_page the next request's `after` is the  *)
(* page's end cursor when the schema exposes it and it is non-empty,       *)
(* otherwise the cursor of the last edge carrying a non-empty one; when    *)
(* there is neither the iterator ends with SerializationError.             *)
C18_NextCursorChoice ==
    /\ (wpc = "outer" /\ page_no >= 1)
         => /\ Truthy(after)
            /\ after = ChosenCursor(conn)
            /\ (PAGEINFO_HAS_END_CURSOR /\ Truthy(conn.end_cursor))
                 => after = conn.end_cursor
    /\ wpc = "nested"
         => /\ Truthy(n_after)
            /\ n_after = ChosenCursor(Get(n_conn))
            /\ (PAGEINFO_HAS_END_CURSOR /\ Truthy(Get(n_conn).end_cursor))
                 => n_after = Get(n_conn).end_cursor
    /\ walk_outcome.why = "cursor_missing"
         => /\ walk_outcome.kind = "SerializationError"
            /\ wpc = "done"
            /\ OuterEvaluated \/ NestedEvaluated
    /\ OuterEvaluated
         => (walk_outcome.why = "cursor_missing"
               <=> conn.has_next_page /\ ChosenCursor(conn) = None)
    /\ NestedEvaluated
         => (walk_outcome.why = "cursor_missing"
               <=> Get(n_conn).has_next_page /\ ChosenCursor(Get(n_conn)) = None)

(* C18 witness: with no usable end cursor the next request carries the     *)
(* cursor of the first edge, the last edge having none.                    *)
C18_Witness ==
    /\ wpc = "outer"
    /\ page_no = 1
    /\ ~Truthy(conn.end_cursor)
    /\ Len(conn.cursors) = 2
    /\ ~Truthy(conn.cursors[2])
    /\ after = conn.cursors[1]

(* The outer pages requested up to position i of `events`. *)
PageAt(i) == Cardinality({j \in 1..i : events[j].type = "request" /\ events[j].walk = "outer"})

(* Edge order across pages. *)
Before(p, q) == p[1] < q[1] \/ (p[1] = q[1] /\ p[2] <= q[2])

(* C19: parents are handled one at a time in edge order; each parent is    *)
(* drained by its nested requests before its record is yielded; the next   *)
(* outer request waits for every parent of the page; a parent whose        *)
(* embedded connection has no next page causes no nested request.          *)
C19_ParentsDrainedInOrder ==
    /\ \A i, j \in 1..Len(events) :
         (i < j /\ events[i].parent # <<>> /\ events[j].parent # <<>>)
         => /\ Before(events[i].parent, events[j].parent)
            /\ events[i].type = "yield" => events[i].parent # events[j].parent
    /\ \A i \in 1..Len(events) :
         events[i].parent # <<>> => events[i].parent[1] = PageAt(i)
    /\ (wpc = "outer" /\ page_no >= 1)
         => \A i \in 1..Len(conn.nodes) :
              \E j \in 1..Len(events) : events[j] = YieldEvent(conn.nodes[i])
    /\ (wpc = "nested" /\ RequestsOf("nested", CurrentParent) = {})
         => Get(n_conn).has_next_page
    /\ JustYielded
         => /\ ~Get(n_conn).has_next_page
            /\ events[Len(events)] = YieldEvent(last_record.project)

(* C19 witness: the first parent is drained by one nested request, the     *)
(* second needs none, and only then is the second outer page requested.    *)
C19_Witness ==
    /\ Len(events) = 5
    /\ events[1] = RequestEvent("outer", <<>>, None, "none")
    /\ events[2].type = "request" /\ events[2].parent = <<1, 1>>
    /\ events[3] = YieldEvent(<<1, 1>>)
    /\ events[4] = YieldEvent(<<1, 2>>)
    /\ events[5].type = "request" /\ events[5].walk = "outer"

(* The yielded projects follow the edges: page by page, edge by edge. *)
RecordsFollowEdges ==
    \A j \in 1..Len(records) :
      /\ records[j][2] = 1 \/ (j > 1 /\ records[j - 1] = <<records[j][1], records[j][2] - 1>>)
      /\ (j > 1 /\ records[j][2] = 1) => records[j - 1][1] < records[j][1]

(* C20 as stated: the records follow the outer edges in server order, and  *)
(* a record's teams are the embedded page's teams followed by those of     *)
(* each fetched page, as sent.                                             *)
C20_TeamsAsServed ==
    /\ RecordsFollowEdges
    /\ JustYielded
         => /\ last_record.project = records[Len(records)]
            /\ last_record.opsgenie_teams
                 = [i \in 1..Len(served) |-> StripId(served[i])]

(* The positions of `ids` that hold the first occurrence of a team id. *)
FirstOccurrences(ids) ==
    {i \in 1..Len(ids) : \A j \in 1..(i - 1) : StripId(ids[j]) # StripId(ids[i])}

(* C20, amended: the records follow the outer edges in server order, and   *)
(* a record's teams are the embedded page's teams followed by those of     *)
(* each fetched page in fetch order, each team id kept once, at its first  *)
(* occurrence.                                                             *)
C20_TeamsInFetchOrderOnce ==
    /\ RecordsFollowEdges
    /\ JustYielded
         => LET kept == FirstOccurrences(served)
                list == last_record.opsgenie_teams
            IN  /\ last_record.project = records[Len(records)]
                /\ Len(list) = Cardinality(kept)
                /\ \A i \in kept :
                     list[Cardinality({j \in kept : j <= i})] = StripId(served[i])

(* C20 witness: a record whose teams come from the embedded page and one   *)
(* fetched page, the fetched page repeating a team of the embedded one.    *)
C20_Witness ==
    /\ JustYielded
    /\ Len(served) = 3
    /\ Len(last_record.opsgenie_teams) = 2
    /\ Cardinality(RequestsOf("nested", last_record.project)) = 1
    /\ Len(records) = 2

(* The last entry of `events`. *)
LastEvent == events[Len(events)]

(* C21: an error the executor raises for a page request (outer or nested)  *)
(* ends the iterator with that same error: the failed request is the last  *)
(* event, the record being assembled is not yielded, and the records       *)
(* yielded before stay as they were.                                       *)
C21_ExecutorErrorsPropagate ==
    /\ [](/\ \A i \in 1..Len(events) :
               events[i].raised # "none"
               => /\ i = Len(events)
                  /\ wpc = "done"
                  /\ walk_outcome = WalkOutcome(events[i].raised, "execute")
          /\ walk_outcome.why = "execute"
               => /\ walk_outcome.kind \in ExecuteErrors
                  /\ LastEvent.type = "request"
                  /\ LastEvent.raised = walk_outcome.kind
                  /\ last_record = NoRecord
                  /\ \A j \in 1..Len(records) : records[j] # LastEvent.parent)
    /\ [][(events' # events /\ LastEvent'.raised # "none") => records' = records]_vars

(* C21 witness: a nested request fails in the transport after one record   *)
(* was yielded.                                                            *)
C21_Witness ==
    /\ wpc = "done"
    /\ walk_outcome = WalkOutcome("TransportError", "execute")
    /\ LastEvent.walk = "nested"
    /\ LastEvent.parent = <<1, 2>>
    /\ records = << <<1, 1>> >>

LastOffset == offsets[Len(offsets)]

(* C23: the startAt values requested by one call start at 0 and strictly   *)
(* increase, so none is requested twice; the same holds for the request    *)
(* that is due next.                                                       *)
C23_OffsetsStrictlyIncrease ==
    /\ Len(offsets) >= 1 => offsets[1] = 0
    /\ \A i, j \in 1..Len(offsets) : i < j => offsets[i] < offsets[j]
    /\ seen_start_at = {offsets[i] : i \in 1..Len(offsets)}
    /\ opc = "request"
         => /\ start_at \notin seen_start_at
            /\ \A i \in 1..Len(offsets) : offsets[i] < start_at
            /\ Len(offsets) = 0 => start_at = 0
    /\ offset_outcome.why # "offset_repeated"

(* C23 witness: three requests at growing offsets with pages of different  *)
(* sizes.                                                                  *)
C23_Witness ==
    /\ Len(offsets) = MaxOffsetRequests
    /\ page_size = 2
    /\ delivered[1] = 2
    /\ delivered[2] = 3
    /\ offsets[2] = 2
    /\ offsets[3] = 5

(* The iterator has received and handled the page of its last request. *)
PageHandled == Len(offsets) >= 1 /\ Len(delivered) = Len(offsets)

(* The stop decision by strict precedence: the isLast flag when the page   *)
(* carries one, else the total when it carries one, else the short-page    *)
(* heuristic.                                                              *)
StopByPrecedence(pg, start, size) ==
    IF IsSome(pg.is_last) THEN Get(pg.is_last)
    ELSE IF IsSome(pg.total) /\ Get(pg.total) >= 0
    THEN start + pg.count >= Get(pg.total)
    ELSE pg.count < size

(* C24: after each page iter_projects_via_rest stops exactly when the most *)
(* authoritative rule whose field the page carries says so: isLast, else   *)
(* total (offset + returned >= total), else returned < page_size; a        *)
(* non-empty page that does not stop it is followed by the request at      *)
(* offset + returned.                                                      *)
C24_StopDecidedByPrecedence ==
    (iterator = "projects" /\ PageHandled)
    => LET stop == StopByPrecedence(page, LastOffset, page_size)
       IN  /\ stop => (opc = "done" /\ offset_outcome = OffsetOutcome("exhausted", "none"))
           /\ (~stop /\ page.count > 0)
                => (opc = "request" /\ start_at = LastOffset + page.count)

(* C25: in iter_projects_via_rest an empty page with isLast = false ends   *)
(* the iterator with SerializationError whatever its total, and an empty   *)
(* page with isLast true or absent ends it normally.                       *)
C25_EmptyPageAgainstFlagFails ==
    (iterator = "projects" /\ PageHandled /\ page.count = 0)
    => /\ opc = "done"
       /\ offset_outcome
            = IF page.is_last = Some(FALSE)
              THEN OffsetOutcome("SerializationError", "empty_not_last")
              ELSE OffsetOutcome("exhausted", "none")

(* The apply calls among the first n finished that refreshed the token    *)
(* successfully.                                                           *)
Refreshes(n) ==
    {i \in 1..n : applyLog[i].refreshed /\ applyLog[i].error = "none"}

Earliest(S) == CHOOSE i \in S : \A j \in S : i <= j
Latest(S) == CHOOSE i \in S : \A j \in S : j <= i

(* C26: at most one thread is inside the locked section, and once the      *)
(* token endpoint has returned a token whose lifetime still exceeds the    *)
(* refresh margin, that refresh stays the only one: every other caller,    *)
(* also one that called while the lock was held, gets that same token and  *)
(* sends no request of its own.                                            *)
C26_OneRefreshForConcurrentCallers ==
    /\ Cardinality({t \in Threads : apc[t] \in {"locked", "refreshing", "storing"}}) <= 1
    /\ \A t \in Threads : apc[t] \in {"locked", "refreshing", "storing"} => auth_lock = t
    /\ LET done == Refreshes(Len(applyLog)) IN
       (done # {} /\ now + refresh_margin < Get(applyLog[Earliest(done)].expires))
       => /\ Cardinality(done) = 1
          /\ \A j \in 1..Len(applyLog) :
               j > Earliest(done)
               => /\ ~applyLog[j].refreshed
                  /\ applyLog[j].error = "none"
                  /\ applyLog[j].token = applyLog[Earliest(done)].token
          /\ \A t \in Threads : apc[t] \notin {"refreshing", "storing"}
          /\ tokenRequests = Earliest(done)

(* C26 witness: a thread calls apply while the other holds the lock and    *)
(* refreshes; it gets the other's token and one request was sent.          *)
C26_Witness ==
    /\ Len(applyLog) = 2
    /\ applyLog[1].refreshed /\ applyLog[1].error = "none"
    /\ applyLog[2].overlap
    /\ applyLog[2].thread # applyLog[1].thread
    /\ applyLog[2].token = applyLog[1].token
    /\ tokenRequests = 1

C28_ReuseWhileValid ==
    /\ \A j \in 1..Len(applyLog) :
         LET e == applyLog[j]
             prior == Refreshes(j - 1)
             valid == /\ prior # {}
                      /\ e.now + refresh_margin < Get(applyLog[Latest(prior)].expires)
         IN  /\ e.refreshed <=> ~valid
             /\ ~e.refreshed
                  => e.error = "none" /\ e.token = applyLog[Latest(prior)].token
             /\ (e.refreshed /\ e.error = "none")
                  => /\ e.token = Some(Cardinality({i \in 1..j : applyLog[i].refreshed}))
                     /\ Get(e.expires) >= e.now
    /\ tokenRequests
         = Cardinality({i \in 1..Len(applyLog) : applyLog[i].refreshed})
           + Cardinality({t \in Threads : apc[t] = "storing"})

(* C28 witness: two calls of one thread, the second later but within the   *)
(* token's validity: one token request, the same token twice.              *)
C28_Witness ==
    /\ Len(applyLog) = 2
    /\ applyLog[1].refreshed
    /\ ~applyLog[2].refreshed
    /\ applyLog[2].thread = applyLog[1].thread
    /\ applyLog[2].now > applyLog[1].now
    /\ applyLog[2].token = applyLog[1].token
    /\ tokenRequests = 1

(* C29: a response is open only while the loop body handles it: it is     *)
(* closed when the body is left, whether for the next attempt, a return or *)
(* an exception, so no attempt is issued and no call ends with a response  *)
(* still open.                                                             *)
C29_ResponseClosedOnEveryExit ==
    /\ [](respOpen => (pc = "handle" /\ IsSome(response)))
    /\ [][(pc = "handle" /\ pc' # "handle") => (respOpen /\ ~respOpen')]_vars

(* C29 witness: a call that ended with SerializationError on its second    *)
(* response, after a 429 that was retried.                                 *)
C29_Witness ==
    /\ Done
    /\ exchanges = 2
    /\ attemptLog[1].result = "retry"
    /\ outcome.kind = "SerializationError"
    /\ ~respOpen

(* The Retry-After headers that are all digits once trimmed, and the       *)
(* number each spells.                                                     *)
DigitHeaders == {Some(<<D(2)>>), Some(<<SP, D(6), D(1), SP>>)}
SecondsSpelled(header) == IF header = Some(<<D(2)>>) THEN 2 ELSE 61

C31_RequestsOnlyOnDemand ==
    /\ [](/\ wpc = "idle" => events = <<>>
          /\ JustYielded
               => /\ LastEvent = YieldEvent(last_record.project)
                  /\ walk_outcome = WalkOutcome("none", "none")
                  /\ PageAt(Len(events)) = last_record.project[1]
                  /\ \A i \in 1..Len(events) :
                       events[i].parent # <<>>
                       => Before(events[i].parent, last_record.project)
          /\ \A i \in 1..Len(events) :
               (events[i].type = "request" /\ events[i].walk = "outer"
                  /\ PageAt(i) = page_no + 1 /\ page_no >= 1)
               => \A k \in 1..Len(conn.nodes) :
                    \E j \in 1..(i - 1) : events[j] = YieldEvent(conn.nodes[k]))
    /\ [][(Len(events') > Len(events) /\ LastEvent'.type = "request")
          => (wpc \in {"outer", "nested"} /\ last_record = NoRecord)]_vars

(* C31 witness: the consumer holds the first record of a page of two; the  *)
(* one request made so far is the one that fetched the page.               *)
C31_Witness ==
    /\ JustYielded
    /\ last_record.project = <<1, 1>>
    /\ Len(conn.nodes) = 2
    /\ conn.has_next_page
    /\ Requests = 1

(* C32: a 200 response whose payload carries a non-empty error list ends   *)
(* execute at once: in strict mode with GraphQLOperationError holding the  *)
(* errors and the partial data, otherwise with a result holding the data   *)
(* and the errors; the attempt that received it is the last one.           *)
C32_ErrorListEndsTheCall ==
    \A i \in 1..Len(attemptLog) :
      LET e == attemptLog[i] IN
      (client = "graphql" /\ e.status = 200 /\ e.body = "object_errors"
         /\ e.result # "pending")
      => /\ i = Len(attemptLog)
         /\ Done
         /\ exchanges = i
         /\ e.result = outcome.kind
         /\ outcome = [NoOutcome EXCEPT
                         !.kind = IF strict THEN "GraphQLOperationError" ELSE "result",
                         !.data = Some("data"),
                         !.errors = Some("errors")]

(* C32 witness: strict mode, the error list arriving on the attempt that   *)
(* follows a retried 429.                                                  *)
C32_Witness ==
    /\ client = "graphql"
    /\ strict
    /\ Done
    /\ Len(attemptLog) = 2
    /\ attemptLog[1].result = "retry"
    /\ attemptLog[2].status = 200
    /\ attemptLog[2].body = "object_errors"
    /\ outcome.kind = "GraphQLOperationError"

(* C33 (as amended): with local throttling enabled every attempt of        *)
(* execute, the first and each retry after a 429, is charged the           *)
(* operation's cost before the auth headers are built and before the       *)
(* exchange is issued: while an attempt waits for its headers the charges  *)
(* are one ahead of the exchanges, and a call that issued k exchanges has  *)
(* made k admitted consume calls of that cost, or k + 1 when the auth      *)
(* capability raised for an attempt the bucket had already admitted.       *)
C33_EveryAttemptCharged ==
    (client = "graphql" /\ enable_local_throttling)
    => /\ \A i \in 1..Len(charges) : charges[i] = cost_value
       /\ pc = "send" => Len(charges) = retries + 1
       /\ Len(charges) = exchanges
                          + (IF pc = "send" \/ outcome.kind = "AuthError" THEN 1 ELSE 0)

(* C33 witness: a call that was answered 429, retried and then finished:   *)
(* two exchanges, two charges of the operation's cost.                     *)
C33_Witness ==
    /\ client = "graphql"
    /\ enable_local_throttling
    /\ Done
    /\ retries = 1
    /\ exchanges = 2
    /\ cost_value > 0
    /\ charges = <<cost_value, cost_value>>

(* C33 as stated: a finished call has made exactly as many admitted        *)
(* consume calls as it issued exchanges.                                   *)
C33_ChargesEqualExchanges ==
    (client = "graphql" /\ enable_local_throttling /\ Done) => Len(charges) = exchanges

(* The cursors a nested walk of `parent` has sent. *)
NestedCursors(parent) == {Get(c) : c \in UsedAfters("nested", parent)}

(* The parents other than `parent` for which nested requests were made. *)
OtherParents(parent) ==
    {events[i].parent : i \in {j \in 1..Len(events) :
                                  /\ events[j].type = "request"
                                  /\ events[j].walk = "nested"
                                  /\ events[j].parent # parent}}

(* The cursors used outside the nested walk of `parent`: by the outer walk *)
(* and by the nested walks of the other parents.                           *)
ForeignCursors(parent) ==
    seen_after \cup UNION {NestedCursors(q) : q \in OtherParents(parent)}

(* C34: a nested walk has a seen-cursor set of its own: it starts as the   *)
(* cursor of the parent's embedded page and holds exactly that parent's    *)
(* nested cursors; a cursor used by the outer walk or by another parent's  *)
(* nested walk does not make the walk fail, and no step of a nested walk   *)
(* changes the outer seen set.                                             *)
C34_NestedSeenSetIsItsOwn ==
    /\ [](wpc = "nested"
            => /\ n_seen_after = NestedCursors(CurrentParent) \cup {Get(n_after)}
               /\ RequestsOf("nested", CurrentParent) = {}
                    => n_seen_after = {Get(ChosenCursor(Get(n_conn)))})
    /\ []((NestedEvaluated /\ walk_outcome.why = "cursor_repeated")
           => Get(ChosenCursor(Get(n_conn))) \in NestedCursors(CurrentParent))
    /\ [][(wpc = "nested" /\ walk_outcome'.why = "cursor_repeated")
           => Get(ChosenCursor(Get(n_conn'))) \in n_seen_after]_vars
    /\ [][(wpc = "nested" \/ wpc' = "nested") => seen_after' = seen_after]_vars

(* C34 witness: the second parent's nested walk is about to request the    *)
(* cursor that both the outer walk and the first parent's nested walk have *)
(* already used.                                                           *)
C34_Witness ==
    /\ wpc = "nested"
    /\ Get(n_after) \in seen_after
    /\ \E q \in OtherParents(CurrentParent) : Get(n_after) \in NestedCursors(q)
    /\ Get(n_after) \in ForeignCursors(CurrentParent)
    /\ n_seen_after = {Get(n_after)}
    /\ walk_outcome.kind = "none"

(* The sum of the first n entries of a sequence of numbers. *)
RECURSIVE SumFirst(_, _)
SumFirst(seq, n) == IF n = 0 THEN 0 ELSE SumFirst(seq, n - 1) + seq[n]

(* C35: the startAt of every request is the number of items all previous   *)
(* pages of the call returned, whatever page_size is; the items that       *)
(* iter_projects_via_rest does not yield count like the others.            *)
C35_OffsetIsReturnedCount ==
    /\ Len(offsets) - 1 <= Len(delivered) /\ Len(delivered) <= Len(offsets)
    /\ \A i \in 1..Len(offsets) : offsets[i] = SumFirst(delivered, i - 1)
    /\ opc = "request" => start_at = SumFirst(delivered, Len(delivered))
    /\ yielded <= SumFirst(delivered, Len(delivered))
    /\ iterator # "projects" => yielded = SumFirst(delivered, Len(delivered))

(* C35 witness: iter_projects_via_rest with page_size 2 has received three *)
(* and two projects and yielded one of them; the next request starts at 5. *)
C35_Witness ==
    /\ iterator = "projects"
    /\ page_size = 2
    /\ opc = "request"
    /\ delivered = <<3, 2>>
    /\ yielded = 1
    /\ offsets = <<0, 3>>
    /\ start_at = 5

(* C36: the seen-offset check never fires: the offset changes only by the  *)
(* positive count of the page just received, so the offset about to be     *)
(* requested lies above every offset seen, and no call ends with the       *)
(* repeated-startAt SerializationError.                                    *)
C36_SeenCheckNeverFires ==
    /\ [](opc = "request" => \A s \in seen_start_at : s < start_at)
    /\ [](offset_outcome.why # "offset_repeated")
    /\ [][start_at' # start_at
           => /\ page'.count > 0
              /\ start_at' = start_at + page'.count
              /\ seen_start_at' = seen_start_at \cup {start_at}]_vars
    /\ [][opc = "request" => offsets' = Append(offsets, start_at)]_vars

(* C36 witness: the server keeps announcing more than it sends and ends    *)
(* with an empty page: the call stops after it instead of asking for the   *)
(* same offset again.                                                      *)
C36_Witness ==
    /\ opc = "done"
    /\ offset_outcome.kind = "exhausted"
    /\ delivered = <<2, 1, 0>>
    /\ seen_start_at = {0, 2, 3}
    /\ page.total = Some(4)

(* The page carries a usable total. *)
HasTotal(pg) == IsSome(pg.total) /\ Get(pg.total) >= 0

(* C37: a call whose pages all report the total T makes at most max(1, T)  *)
(* requests and then ends, stated page by page: after n requests a         *)
(* further one is pending or issued only if the n-th page reported a total *)
(* above n, and then from an offset of at least n below that total,        *)
(* whatever the page holds and whatever its isLast flag says.              *)
C37_TotalBoundsRequests ==
    /\ []((opc = "request" /\ Len(offsets) >= 1 /\ HasTotal(page))
           => /\ Len(offsets) < Get(page.total)
              /\ Len(offsets) <= start_at
              /\ start_at < Get(page.total))
    /\ []((Len(offsets) = 1 /\ page # NoPage /\ HasTotal(page) /\ Get(page.total) <= 1)
           => opc = "done")
    /\ [][(Len(offsets') > Len(offsets) /\ Len(offsets) >= 1 /\ HasTotal(page))
           => Len(offsets') <= Get(page.total)]_vars

(* C37 witness: iter_projects_via_rest against a server reporting a total  *)
(* of 2 and isLast false: the second page reaches the total and the call   *)
(* has ended after two requests.                                           *)
C37_Witness ==
    /\ iterator = "projects"
    /\ opc = "done"
    /\ offset_outcome.kind = "exhausted"
    /\ offsets = <<0, 1>>
    /\ delivered = <<1, 1>>
    /\ page.total = Some(2)
    /\ page.is_last = Some(FALSE)

(* The non-empty cursors of a raw page, and C: those of all the pages the  *)
(* server can send.                                                        *)
CursorsOfProjects(raw) ==
    {raw.end_cursor} \cup {raw.edges[i] : i \in 1..Len(raw.edges)}
CursorsOfTeams(raw) ==
    {raw.end_cursor} \cup {raw.edges[i].cursor : i \in 1..Len(raw.edges)}
ServerCursors ==
    {c \in UNION ({CursorsOfProjects(raw) : raw \in ProjectsConnections}
                  \cup {CursorsOfTeams(raw) : raw \in TeamsConnections}) : Truthy(c)}

(* The parents for which nested requests were made. *)
DrainedParents == OtherParents(<<>>)

(* C38: with the server's cursors drawn from the finite set C, one call    *)
(* makes at most |C| + 1 outer requests and at most |C| requests in the    *)
(* nested walk of any parent, a pending request included; every cursor     *)
(* requested is one the server sent.                                       *)
C38_CursorSetBoundsRequests ==
    LET outer == Cardinality(RequestsOf("outer", <<>>))
        bound == Cardinality(ServerCursors)
    IN  /\ outer + (IF wpc = "outer" THEN 1 ELSE 0) <= bound + 1
        /\ \A q \in DrainedParents :
              /\ Cardinality(RequestsOf("nested", q)) <= bound
              /\ UsedAfters("nested", q) \subseteq ServerCursors
        /\ wpc = "nested"
              => Cardinality(RequestsOf("nested", CurrentParent)) + 1 <= bound
        /\ UsedAfters("outer", <<>>) \subseteq ServerCursors \cup {None}

(* C38 witness: the outer walk has used every cursor, its third page       *)
(* offers one of them again and the call has ended with                    *)
(* SerializationError after |C| + 1 outer requests.                        *)
C38_Witness ==
    /\ OuterEvaluated
    /\ Cardinality(RequestsOf("outer", <<>>)) = Cardinality(ServerCursors) + 1
    /\ UsedAfters("outer", <<>>) = ServerCursors \cup {None}
    /\ walk_outcome = WalkOutcome("SerializationError", "cursor_repeated")

(* An apply call ends in this step with the error of its token request. *)
RefreshFailsNow ==
    /\ Len(applyLog') = Len(applyLog) + 1
    /\ applyLog'[Len(applyLog')].error # "none"

(* C39: a failed token refresh leaves the cached token, its expiry and the *)
(* stored refresh token as they were, releases the lock the caller held,   *)
(* and the next apply call to get the lock sends a token request again.    *)
C39_FailedRefreshLeavesCache ==
    /\ [][RefreshFailsNow
           => /\ access_token' = access_token
              /\ expires_at' = expires_at
              /\ refresh_token' = refresh_token
              /\ auth_lock = applyLog'[Len(applyLog')].thread
              /\ auth_lock' = 0
              /\ tokenRequests' = tokenRequests + 1]_vars
    /\ [](\A j \in 1..Len(applyLog) :
             applyLog[j].error # "none"
             => /\ applyLog[j].error \in TokenFailures
                /\ applyLog[j].refreshed
                /\ j < Len(applyLog) => applyLog[j + 1].refreshed)

(* C39 witness: a refresh fails while an expired token is cached; the      *)
(* token is still cached when the next call refreshes successfully.        *)
C39_Witness ==
    /\ Len(applyLog) = 3
    /\ applyLog[1].refreshed /\ applyLog[1].error = "none"
    /\ applyLog[2].error = "TransportError"
    /\ applyLog[3].refreshed /\ applyLog[3].error = "none"
    /\ tokenRequests = 3
    /\ auth_lock = 0

(* What get_json does with the 429 response in hand when `drift` passes    *)
(* between its two clock reads: the retry count, the sleeper calls, the    *)
(* clock and the outcome after the loop body, and whether the call ended.  *)
GetJsonOn429(drift) ==
    LET retry_header == Get(response).header
        attempt_number == AttemptNumber(retries)
        pr == _parse_retry_after(retry_header, now)
        computed_wait == pr.at - (now + drift)
        wait_seconds == WaitSeconds(computed_wait)
        decision == RateLimitDecision(pr.ok, computed_wait, retries,
                                      max_retries_429, max_wait_seconds)
        sleeping == decision = "retry" /\ ShouldSleep(wait_seconds)
    IN  [ended |-> decision # "retry",
         retries |-> IF decision = "retry" THEN retries + 1 ELSE retries,
         sleeps |-> IF sleeping THEN Append(sleeps, <<"429", wait_seconds>>) ELSE sleeps,
         now |-> IF decision = "parse_failure" THEN now
                 ELSE now + drift + (IF sleeping THEN wait_seconds ELSE 0),
         outcome |-> CASE decision = "parse_failure"
                            -> ParseFailureError(attempt_number, retry_header)
                       [] decision = "over_cap"
                            -> OverCapError(pr.at, attempt_number, retry_header,
                                            computed_wait, max_wait_seconds)
                       [] decision = "exhausted"
                            -> RetriesExhaustedError(pr.at, attempt_number, retry_header,
                                                     computed_wait)
                       [] OTHER -> outcome]

(* execute without local throttling. *)
Unthrottled == client = "graphql" /\ ~enable_local_throttling

====
